---------------------------- MODULE Spec2Model ----------------------------
(***************************************************************************)
(* Verification model of the 21Cloud dashboard data pipeline:              *)
(*   - calcExposure / derivePhase          (exposure.js, config.js)        *)
(*   - renderPhaseSummary                  (sector.js)                     *)
(*   - parseCsv (tokenizer, header dedup)  (sheets.js)                     *)
(*   - splitCsvLines / splitRow            (portfolio.js)                  *)
(*   - renderScreenTable, ALL-view merge   (screener.js)                   *)
(*   - buildTickerMap, initScreener, header sort, entryScore (screener.js) *)
(*   - loadData / fetchSheets refresh cycle (app.js, sheets.js)            *)
(*   - formatDateLabel                     (market.js)                     *)
(*                                                                         *)
(* Conventions.                                                            *)
(*   A spreadsheet cell is a record [t, v]: t = "null" (empty cell),       *)
(*   "num" (a number, v its value), "txt" (text that parseFloat cannot     *)
(*   read).  Points are fixed-point integers in tenths (350 = 35.0); the   *)
(*   intermediate per-index shares are in hundredths (1167 = 11.67), as    *)
(*   the code rounds them.  Text is a sequence of one-character strings.   *)
(*   Object keys (header names, tickers) are ordinary labels, not names    *)
(*   of Object.prototype members.                                          *)
(***************************************************************************)
EXTENDS Integers, Sequences, FiniteSets, TLC

VARIABLES
    pc,          \* position of the operation being verified: "ready" / "done"
    indices,     \* calcExposure argument: index rows
    breadth,     \* calcExposure argument: breadth summary
    sectors,     \* calcExposure / renderPhaseSummary argument: sector rows
    exposure,    \* calcExposure result
    phaseCounts, \* renderPhaseSummary: phase -> number of sectors
    sectorPhase, \* renderPhaseSummary: p of each sector row (0: row skipped)
    text,        \* CSV text handed to a tokenizer
    field,       \* the field value that was encoded into text
    tokenizer,   \* which tokenizer ran: "none", "sheets", "portfolio"
    tokLines,    \* the tokenizer's lines
    tokRows,     \* the fields of each line (splitRow of each line)
    uniqueHeaders, \* parseCsv: the deduplicated column keys
    result,      \* parseCsv: the Rows built (key -> typed cell)
    screenData,  \* screener.js: the source tables, in Object.entries order
    currentScreen, \* screener.js: "ALL" or the key of the selected screen
    data,        \* renderScreenTable: the rows of the table it builds
    tickerMap,   \* screener.js: ticker id -> cross-screen overlap entry
    dupStocks,   \* renderOverlapAndTable: the overlap list, as ticker ids
    headerSort,  \* screener.js: [col, dir] of the header sort ("" = null)
    sortSelect,  \* value of the sort dropdown
    currentSector, \* screener.js: the selected sector chip (Null = all)
    searchInput, \* value of the search box, as a sequence of characters
    isLoading,   \* app.js: the busy flag
    calls,       \* number of loadData invocations so far
    inFlight,    \* number of fetch-and-render cycles started, not finished
    served,      \* sheet name -> the table its fetch parses when it succeeds
    pending,     \* fetchSheets: names whose fetch has not settled
    failed,      \* fetchSheets: names whose fetch threw
    results,     \* fetchSheets: the results object, in key insertion order
    rendered,    \* views whose render finished in this cycle
    threw,       \* views whose render threw in this cycle
    lastUpdated, \* number of timestamp updates
    arg,         \* argument of the pure function under study
    ret          \* the value it returned

scoringVars == <<indices, breadth, sectors, exposure, phaseCounts, sectorPhase>>
csvVars == <<text, field, tokenizer, tokLines, tokRows, uniqueHeaders, result>>
screenerVars == <<screenData, currentScreen, data>>
tableVars == <<tickerMap, dupStocks, headerSort, sortSelect, currentSector,
              searchInput>>
loadVars == <<isLoading, calls, inFlight, served, pending, failed, results,
              rendered, threw, lastUpdated>>
funcVars == <<arg, ret>>

vars == <<pc, scoringVars, csvVars, screenerVars, tableVars, loadVars,
          funcVars>>

----------------------------------------------------------------------------
(* Bounds of the model *)

MaxIdx == 4
MaxSec == 2
MaxPhaseSec == 2
MaxFieldLen == 3
MaxCols == 4
MaxMergeRows == 3

----------------------------------------------------------------------------
(* Cells and JavaScript numeric helpers *)

Null == [t |-> "null", v |-> 0]
Txt == [t |-> "txt", v |-> 0]
Num(n) == [t |-> "num", v |-> n]

\* parseFloat(c) || d : NaN (empty or unreadable cell) and 0 are both falsy
ParseFloatOr(c, d) == IF c.t = "num" /\ c.v # 0 THEN c.v ELSE d

\* JavaScript truthiness of a cell (null, 0 and '' are falsy)
Truthy(c) == (c.t = "num" /\ c.v # 0) \/ c.t = "txt"

\* Math.round(a / b) for b > 0: halves round towards +infinity
RoundDiv(a, b) == (2 * a + b) \div (2 * b)

Min(a, b) == IF a <= b THEN a ELSE b

RECURSIVE SumSeq(_)
SumSeq(s) == IF s = <<>> THEN 0 ELSE Head(s) + SumSeq(Tail(s))

\* the empty object {}
EmptyMap == [x \in {} |-> 0]

\* all sequences over S of length at most n
SeqsUpTo(S, n) == UNION {[1..k -> S] : k \in 0..n}

----------------------------------------------------------------------------
(* config.js: EXPOSURE and PHASE *)

W_ema21 == 35
W_sma50 == 10
W_toraku == 17
W_nhNl == 13
W_advPct == 10
W_sectorBreadth == 15
insideBand == 1
overheatDanger == 140
overheatWarn == 120
optimalLow == 100
warmLow == 80
coolLow == 70
steps == [optimal |-> 17, warm |-> 11, cool |-> 6, overheat |-> 3,
          extreme |-> 0, cold |-> 2]
nhBonus == [threshold100 |-> 3, threshold50 |-> 2]
advPctSteps == << [min |-> 55, pts |-> 10], [min |-> 45, pts |-> 7],
                  [min |-> 35, pts |-> 4] >>
sectorB80Threshold == 20
sectorB80Bonus == 5
PHASE == [strong |-> [rs21Min |-> 50], improving |-> [rs21Min |-> 30],
          stalling |-> [rs21Min |-> 30]]

----------------------------------------------------------------------------
(* exposure.js: derivePhase *)

\* mutant: the final "return 1" is missing (the function falls off its end)
derivePhaseNoFinalReturn(sector) ==
    LET rs21 == ParseFloatOr(sector.RS_21, 50)
        er1w == ParseFloatOr(sector.ER_1W, 0)
    IN  IF rs21 >= PHASE.strong.rs21Min /\ er1w > 0 THEN 4
        ELSE IF er1w > 0 /\ rs21 >= PHASE.improving.rs21Min THEN 3
        ELSE IF er1w <= 0 /\ rs21 >= PHASE.stalling.rs21Min THEN 2
        ELSE 0

derivePhase(sector) ==
    LET rs21 == ParseFloatOr(sector.RS_21, 50)
        er1w == ParseFloatOr(sector.ER_1W, 0)
    IN  IF rs21 >= PHASE.strong.rs21Min /\ er1w > 0 THEN 4
        ELSE IF er1w > 0 /\ rs21 >= PHASE.improving.rs21Min THEN 3
        ELSE IF er1w <= 0 /\ rs21 >= PHASE.stalling.rs21Min THEN 2
        ELSE 1

----------------------------------------------------------------------------
(* exposure.js: calcExposure *)

\* mutant: the lower edge of the band compared with >= instead of >
emaPosInclusiveLow(idx) ==
    LET d21 == ParseFloatOr(idx.d21, 0)
    IN  IF d21 > insideBand THEN "above"
        ELSE IF d21 >= -insideBand THEN "inside" ELSE "below"

\* emaPos of one index row (lines 22, 26)
emaPos(idx) ==
    LET d21 == ParseFloatOr(idx.d21, 0)
    IN  IF d21 > insideBand THEN "above"
        ELSE IF d21 > -insideBand THEN "inside" ELSE "below"

\* abv50 of one index row (lines 23, 27)
abv50(idx) == ParseFloatOr(idx.d50, 0) > 0

\* per-index shares, in hundredths: Math.round(W / 3 * 100) / 100
perIdx1 == RoundDiv(W_ema21 * 100, 3)
halfIdx1 == RoundDiv(W_ema21 * 100, 6)
perIdx2 == RoundDiv(W_sma50 * 100, 3)

\* (1) Index x 21EMA, in tenths
Score1(idxs) ==
    LET share(i) == IF emaPos(idxs[i]) = "above" THEN perIdx1
                    ELSE IF emaPos(idxs[i]) = "inside" THEN halfIdx1 ELSE 0
    IN  RoundDiv(SumSeq([i \in 1..Len(idxs) |-> share(i)]), 10)

\* (2) Index x 50SMA, in tenths
Score2(idxs) ==
    RoundDiv(SumSeq([i \in 1..Len(idxs) |->
                        IF abv50(idxs[i]) THEN perIdx2 ELSE 0]), 10)

\* mutant: the overheat bucket starts at the warning threshold itself
Score3OverheatFromWarn(t) ==
    IF t > overheatDanger THEN steps.extreme
    ELSE IF t >= overheatWarn THEN steps.overheat
    ELSE IF t >= optimalLow THEN steps.optimal
    ELSE IF t >= warmLow THEN steps.warm
    ELSE IF t >= coolLow THEN steps.cool
    ELSE steps.cold

\* (3) advance/decline ratio (25), in points
Score3(t) ==
    IF t > overheatDanger THEN steps.extreme
    ELSE IF t > overheatWarn THEN steps.overheat
    ELSE IF t >= optimalLow THEN steps.optimal
    ELSE IF t >= warmLow THEN steps.warm
    ELSE IF t >= coolLow THEN steps.cool
    ELSE steps.cold

warningLabel(t) ==
    IF t > overheatWarn
    THEN (IF t > overheatDanger THEN "danger" ELSE "warning")
    ELSE "none"

\* the counts up to 125 new highs and 200 new lows for which the double
\* nh / (nh + nl) * nhBase * 10 comes out just under an exact half, so that
\* Math.round gives the integer below (47 and 153: 23.499999999999996)
halfFallsShort ==
    { <<47, 153>>, <<57, 143>>, <<59, 141>>, <<83, 117>>, <<113, 87>>,
      <<119, 81>> }

\* Math.round(nh / (nh + nl) * nhBase * 10) for nh + nl > 0
roundedRatio(nh, nl, nhBase) ==
    IF <<nh, nl>> \in halfFallsShort
    THEN RoundDiv(nh * nhBase * 10, nh + nl) - 1
    ELSE RoundDiv(nh * nhBase * 10, nh + nl)

\* mutant: the 100 branch grants no bonus
Score4NoBonus100(nh, nl) ==
    LET nhBase == W_nhNl - nhBonus.threshold100
        base == IF nh + nl > 0 THEN roundedRatio(nh, nl, nhBase) ELSE 0
        bonus == IF nh >= 100 THEN 0
                 ELSE IF nh >= 50 THEN nhBonus.threshold50 * 10 ELSE 0
    IN  Min(W_nhNl * 10, base + bonus)

\* (4) NH/NL ratio plus absolute-count bonus, in tenths
Score4(nh, nl) ==
    LET nhBase == W_nhNl - nhBonus.threshold100
        base == IF nh + nl > 0 THEN roundedRatio(nh, nl, nhBase) ELSE 0
        bonus == IF nh >= 100 THEN nhBonus.threshold100 * 10
                 ELSE IF nh >= 50 THEN nhBonus.threshold50 * 10 ELSE 0
    IN  Min(W_nhNl * 10, base + bonus)

\* (5) advancing-issue percentage: first matching step, in points
RECURSIVE FirstStep(_, _)
FirstStep(ap, stepList) ==
    IF stepList = <<>> THEN 0
    ELSE IF ap >= Head(stepList).min THEN Head(stepList).pts
    ELSE FirstStep(ap, Tail(stepList))

Score5(ap) == FirstStep(ap, advPctSteps)

\* (6) sector breadth, in tenths
Score6(secs) ==
    LET valid == SelectSeq(secs, LAMBDA s : Truthy(s.Sector))
        n == Len(valid)
        phase4Count == Cardinality({i \in 1..n : derivePhase(valid[i]) = 4})
        b80Sum == SumSeq([i \in 1..n |-> ParseFloatOr(valid[i].Band80_Pct, 0)])
        sbBase == W_sectorBreadth - sectorB80Bonus
        ratioPts == IF n > 0 THEN RoundDiv(phase4Count * sbBase * 10, n) ELSE 0
        \* b80Avg >= threshold, with b80Avg = b80Sum / n (0 when n = 0)
        bonus == IF (IF n > 0 THEN b80Sum >= sectorB80Threshold * n
                              ELSE 0 >= sectorB80Threshold)
                 THEN sectorB80Bonus * 10 ELSE 0
    IN  Min(W_sectorBreadth * 10, ratioPts + bonus)

scoreLabel(killSwitch, score) ==
    IF killSwitch THEN "RISK OFF"
    ELSE IF score >= 800 THEN "AGGRESSIVE"
    ELSE IF score >= 600 THEN "BULLISH"
    ELSE IF score >= 400 THEN "CAUTIOUS"
    ELSE IF score >= 200 THEN "DEFENSIVE"
    ELSE "RISK OFF"

killSwitchOf(s1) == s1 = 0

\* mutant: the kill-switch override is dropped
displayScoreNoOverride(killSwitch, raw) == Min(1000, raw)

\* mutant: the clamp to 100 is dropped
displayScoreNoClamp(killSwitch, raw) == IF killSwitch THEN 0 ELSE raw

displayScore(killSwitch, raw) == IF killSwitch THEN 0 ELSE Min(1000, raw)

calcExposure(idxs, br, secs) ==
    LET s1 == Score1(idxs)
        killSwitch == killSwitchOf(s1)
        components == <<
            [name |-> "Index x 21EMA", pts |-> s1, max |-> W_ema21 * 10],
            [name |-> "Index x 50SMA", pts |-> Score2(idxs), max |-> W_sma50 * 10],
            [name |-> "Toraku(25)", pts |-> Score3(br.toraku25) * 10,
             max |-> W_toraku * 10,
             warningLabel |-> warningLabel(br.toraku25)],
            [name |-> "NH/NL", pts |-> Score4(br.newHigh, br.newLow),
             max |-> W_nhNl * 10],
            [name |-> "AdvPct", pts |-> Score5(br.advPct) * 10, max |-> W_advPct * 10],
            [name |-> "Sector Breadth", pts |-> Score6(secs),
             max |-> W_sectorBreadth * 10] >>
        raw == SumSeq([i \in 1..Len(components) |-> components[i].pts])
        score == displayScore(killSwitch, raw)
    IN  [score |-> score, label |-> scoreLabel(killSwitch, score),
         components |-> components, killSwitch |-> killSwitch, raw |-> raw]

NoExposure == [score |-> 0, label |-> "", components |-> <<>>,
               killSwitch |-> FALSE, raw |-> 0]

----------------------------------------------------------------------------
(* Input domains *)

IndexRow(a, b) == [d21 |-> a, d50 |-> b]
IndexRows == { IndexRow(Num(2), Num(3)),     \* above, over the 50SMA
               IndexRow(Num(-1), Num(3)),    \* d21 = -band: below, over the 50SMA
               IndexRow(Null, Null),         \* distances missing
               IndexRow(Num(1), Num(-3)) }   \* d21 = +band

Breadths == [toraku25 : {100, 130}, newHigh : {0, 60, 100}, newLow : {0, 40},
             advPct : {0, 55}]
NoBreadth == [toraku25 |-> 0, newHigh |-> 0, newLow |-> 0, advPct |-> 0]

SectorRow(name, rs, er, b80) ==
    [Sector |-> name, RS_21 |-> rs, ER_1W |-> er, Band80_Pct |-> b80]
ExposureSectors == { SectorRow(Txt, Num(60), Num(1), Num(25)),
                     SectorRow(Txt, Num(20), Num(-1), Null),
                     SectorRow(Null, Num(60), Num(1), Num(25)) }

NoCounts == [p \in 1..4 |-> 0]

\* the parts of the state an operation does not touch stay at
\* their values after construction
ScoringIdle ==
    /\ indices = <<>>
    /\ breadth = NoBreadth
    /\ sectors = <<>>
    /\ exposure = NoExposure
    /\ phaseCounts = NoCounts
    /\ sectorPhase = <<>>

CsvIdle ==
    /\ text = <<>>
    /\ field = <<>>
    /\ tokenizer = "none"
    /\ tokLines = <<>>
    /\ tokRows = <<>>
    /\ uniqueHeaders = <<>>
    /\ result = <<>>

ScreenerIdle ==
    /\ screenData = <<>>
    /\ currentScreen = "ALL"
    /\ data = <<>>

\* headerSort = { col: null, dir: null }
NoSort == [col |-> "", dir |-> ""]

TableIdle ==
    /\ tickerMap = EmptyMap
    /\ dupStocks = <<>>
    /\ headerSort = NoSort
    /\ sortSelect = "default"
    /\ currentSector = Null
    /\ searchInput = <<>>

LoadIdle ==
    /\ isLoading = FALSE
    /\ calls = 0
    /\ inFlight = 0
    /\ served = EmptyMap
    /\ pending = {}
    /\ failed = {}
    /\ results = <<>>
    /\ rendered = {}
    /\ threw = {}
    /\ lastUpdated = 0

FuncIdle ==
    /\ arg = EmptyMap
    /\ ret = Null

\* part is a set of names of state groups
IdleExcept(part) ==
    /\ IF "scoring" \in part THEN TRUE ELSE ScoringIdle
    /\ IF "csv" \in part THEN TRUE ELSE CsvIdle
    /\ IF "screener" \in part THEN TRUE ELSE ScreenerIdle
    /\ IF "table" \in part THEN TRUE ELSE TableIdle
    /\ IF "load" \in part THEN TRUE ELSE LoadIdle
    /\ IF "func" \in part THEN TRUE ELSE FuncIdle

othersOfScoring == <<csvVars, screenerVars, tableVars, loadVars, funcVars>>
othersOfCsv == <<scoringVars, screenerVars, tableVars, loadVars, funcVars>>
othersOfScreener == <<scoringVars, csvVars, tableVars, loadVars, funcVars>>
othersOfTable == <<scoringVars, csvVars, loadVars, funcVars>>
othersOfLoad == <<scoringVars, csvVars, funcVars>>
othersOfFunc == <<scoringVars, csvVars, screenerVars, tableVars, loadVars>>

----------------------------------------------------------------------------
(* Exposure scorer: inputs drawn at Init, one call of calcExposure *)

InitExposure ==
    /\ pc = "ready"
    /\ indices \in SeqsUpTo(IndexRows, MaxIdx)
    /\ breadth \in Breadths
    /\ sectors \in SeqsUpTo(ExposureSectors, MaxSec)
    /\ exposure = NoExposure
    /\ phaseCounts = NoCounts
    /\ sectorPhase = <<>>
    /\ IdleExcept({"scoring"})

CalcExposure ==
    /\ pc = "ready"
    /\ exposure' = calcExposure(indices, breadth, sectors)
    /\ pc' = "done"
    /\ UNCHANGED <<indices, breadth, sectors, phaseCounts, sectorPhase>>
    /\ UNCHANGED othersOfScoring

NextExposure == CalcExposure

SpecExposure == InitExposure /\ [][NextExposure]_vars

----------------------------------------------------------------------------
(* Exposure scorer on a range of new-high / new-low counts *)

MaxNewHigh == 120
MaxNewLow == 155

InitNhNl ==
    /\ pc = "ready"
    /\ indices = <<>>
    /\ breadth \in [toraku25 : {100}, newHigh : 0..MaxNewHigh,
                     newLow : 0..MaxNewLow, advPct : {0}]
    /\ sectors = <<>>
    /\ exposure = NoExposure
    /\ phaseCounts = NoCounts
    /\ sectorPhase = <<>>
    /\ IdleExcept({"scoring"})

NextNhNl == CalcExposure

SpecNhNl == InitNhNl /\ [][NextNhNl]_vars

\* the exposure scorer over the advance/decline ratio alone: breadth.toraku25
\* (0 also stands for a missing ratio, which `|| 0` turns into 0)
MaxToraku == 150

InitToraku ==
    /\ pc = "ready"
    /\ indices = <<>>
    /\ breadth \in [toraku25 : 0..MaxToraku, newHigh : {0}, newLow : {0},
                    advPct : {0}]
    /\ sectors = <<>>
    /\ exposure = NoExposure
    /\ phaseCounts = NoCounts
    /\ sectorPhase = <<>>
    /\ IdleExcept({"scoring"})

NextToraku == CalcExposure

SpecToraku == InitToraku /\ [][NextToraku]_vars

----------------------------------------------------------------------------
(* sector.js: renderPhaseSummary, one call over the sector rows *)

PhaseSectors ==
    { SectorRow(name, rs, er, Null) :
        name \in {Txt, Null},
        rs \in {Null, Txt, Num(0), Num(29), Num(30), Num(49), Num(50)},
        er \in {Null, Num(-1), Num(0), Num(1)} }

\* the loop body: rows without a sector name are skipped, the others are
\* classified and counted
renderPhaseSummaryP(secs) ==
    [i \in 1..Len(secs) |->
        IF Truthy(secs[i].Sector) THEN derivePhase(secs[i]) ELSE 0]

renderPhaseSummaryCounts(secs) ==
    LET p == renderPhaseSummaryP(secs)
    IN  [k \in 1..4 |-> Cardinality({i \in 1..Len(secs) : p[i] = k})]

InitPhase ==
    /\ pc = "ready"
    /\ indices = <<>>
    /\ breadth = NoBreadth
    /\ sectors \in SeqsUpTo(PhaseSectors, MaxPhaseSec)
    /\ exposure = NoExposure
    /\ phaseCounts = NoCounts
    /\ sectorPhase = <<>>
    /\ IdleExcept({"scoring"})

RenderPhaseSummary ==
    /\ pc = "ready"
    /\ sectorPhase' = renderPhaseSummaryP(sectors)
    /\ phaseCounts' = renderPhaseSummaryCounts(sectors)
    /\ pc' = "done"
    /\ UNCHANGED <<indices, breadth, sectors, exposure>>
    /\ UNCHANGED othersOfScoring

NextPhase == RenderPhaseSummary

SpecPhase == InitPhase /\ [][NextPhase]_vars

----------------------------------------------------------------------------
(* Text: sequences of one-character strings *)

COMMA == ","
QUOTE == "\""
NL == "\n"
CR == "\r"
SP == " "
BOM == "\\uFEFF"

\* String.prototype.trim: white space (line terminators and the BOM
\* included) is removed from both ends
IsSpace(c) == c \in {SP, NL, CR, BOM}

RECURSIVE TrimLeft(_)
TrimLeft(str) ==
    IF str # <<>> /\ IsSpace(Head(str)) THEN TrimLeft(Tail(str)) ELSE str

RECURSIVE TrimRight(_)
TrimRight(str) ==
    IF str # <<>> /\ IsSpace(str[Len(str)])
    THEN TrimRight(SubSeq(str, 1, Len(str) - 1)) ELSE str

Trim(str) == TrimRight(TrimLeft(str))

----------------------------------------------------------------------------
(* sheets.js: parseCsv, the tokenizer (lines 19-71) *)

\* the character loop of lines 27-44 and the final push of line 45
RECURSIVE parseCsvLinesFrom(_, _, _, _, _)
parseCsvLinesFrom(txt, i, current, inQuotes, lines) ==
    IF i > Len(txt)
    THEN IF Trim(current) # <<>> THEN Append(lines, current) ELSE lines
    ELSE LET ch == txt[i]
         IN  IF ch = QUOTE
             THEN IF inQuotes /\ i + 1 <= Len(txt) /\ txt[i + 1] = QUOTE
                  THEN parseCsvLinesFrom(txt, i + 2, Append(current, QUOTE),
                                         inQuotes, lines)
                  ELSE parseCsvLinesFrom(txt, i + 1, current, ~inQuotes, lines)
             ELSE IF ch = NL /\ ~inQuotes
             THEN parseCsvLinesFrom(txt, i + 1, <<>>, inQuotes,
                                    Append(lines, current))
             ELSE IF ch = CR /\ ~inQuotes
             THEN parseCsvLinesFrom(txt, i + 1, current, inQuotes, lines)
             ELSE parseCsvLinesFrom(txt, i + 1, Append(current, ch),
                                    inQuotes, lines)

\* line 21 (BOM stripped), then the loop
parseCsvLines(txt) ==
    LET t == IF txt # <<>> /\ Head(txt) = BOM THEN Tail(txt) ELSE txt
    IN  parseCsvLinesFrom(t, 1, <<>>, FALSE, <<>>)

\* splitRow: the same code in sheets.js (lines 49-71) and portfolio.js
\* (lines 36-54)
RECURSIVE splitRowFrom(_, _, _, _, _)
splitRowFrom(line, i, fld, q, fields) ==
    IF i > Len(line) THEN Append(fields, fld)
    ELSE LET c == line[i]
         IN  IF c = QUOTE
             THEN IF q /\ i + 1 <= Len(line) /\ line[i + 1] = QUOTE
                  THEN splitRowFrom(line, i + 2, Append(fld, QUOTE), q, fields)
                  ELSE splitRowFrom(line, i + 1, fld, ~q, fields)
             ELSE IF c = COMMA /\ ~q
             THEN splitRowFrom(line, i + 1, <<>>, q, Append(fields, fld))
             ELSE splitRowFrom(line, i + 1, Append(fld, c), q, fields)

splitRow(line) == splitRowFrom(line, 1, <<>>, FALSE, <<>>)

----------------------------------------------------------------------------
(* sheets.js: parseCsv, the record builder (lines 73-110) *)

DigitChars == <<"0", "1", "2", "3", "4", "5", "6", "7", "8", "9">>
IsDigit(c) == \E d \in 1..10 : DigitChars[d] = c

\* the decimal digits of n >= 0, as the template literal `${n}` prints them
RECURSIVE Digits(_)
Digits(n) ==
    IF n < 10 THEN <<DigitChars[n + 1]>>
    ELSE Digits(n \div 10) \o <<DigitChars[(n % 10) + 1]>>

\* mutant: every repeated name gets the suffix _2 (the counter is not kept)
dedupStepNoCount(st, h) ==
    LET key == Trim(h)
    IN  IF key \notin DOMAIN st.headerCounts
        THEN [headerCounts |-> (key :> 1) @@ st.headerCounts,
              out |-> Append(st.out, key)]
        ELSE [headerCounts |-> st.headerCounts,
              out |-> Append(st.out, key \o <<"_">> \o Digits(2))]

\* one call of the map callback of lines 76-84; st = [headerCounts, out]
\* (a count, once set, is at least 1, so !headerCounts[key] is "key unseen")
dedupStep(st, h) ==
    LET key == Trim(h)
    IN  IF key \notin DOMAIN st.headerCounts
        THEN [headerCounts |-> (key :> 1) @@ st.headerCounts,
              out |-> Append(st.out, key)]
        ELSE LET n == st.headerCounts[key] + 1
             IN  [headerCounts |-> (key :> n) @@ st.headerCounts,
                  out |-> Append(st.out, key \o <<"_">> \o Digits(n))]

RECURSIVE dedupFrom(_, _, _)
dedupFrom(headers, i, st) ==
    IF i > Len(headers) THEN st.out
    ELSE dedupFrom(headers, i + 1, dedupStep(st, headers[i]))

uniqueHeadersOf(headers) ==
    dedupFrom(headers, 1, [headerCounts |-> EmptyMap, out |-> <<>>])

\* /^\d{4}-\d{1,2}-\d{1,2}/
MatchesYmd(str) ==
    /\ Len(str) >= 8
    /\ \A i \in 1..4 : IsDigit(str[i])
    /\ str[5] = "-"
    /\ IsDigit(str[6])
    /\ \/ str[7] = "-" /\ IsDigit(str[8])
       \/ Len(str) >= 9 /\ IsDigit(str[7]) /\ str[8] = "-" /\ IsDigit(str[9])

\* /^\d{1,2}\/\d{1,2}\/\d{4}/
MatchesMdy(str) ==
    \E a \in 1..2, b \in 1..2 :
        /\ Len(str) >= a + b + 6
        /\ \A i \in 1..a : IsDigit(str[i])
        /\ str[a + 1] = "/"
        /\ \A i \in (a + 2)..(a + b + 1) : IsDigit(str[i])
        /\ str[a + b + 2] = "/"
        /\ \A i \in (a + b + 3)..(a + b + 6) : IsDigit(str[i])

\* /^\d{5}$/
MatchesSerial(str) == Len(str) = 5 /\ \A i \in 1..5 : IsDigit(str[i])

\* /date/i
ContainsDate(h) ==
    \E i \in 1..(Len(h) - 3) :
        /\ h[i] \in {"d", "D"}
        /\ h[i + 1] \in {"a", "A"}
        /\ h[i + 2] \in {"t", "T"}
        /\ h[i + 3] \in {"e", "E"}

\* !isNaN(Number(str)) for trimmed, non-empty text made of digits, signs,
\* points and other characters that start no numeric literal: an optional
\* sign, then digits with at most one point and at least one digit
IsNumberText(str) ==
    LET body == IF str[1] \in {"+", "-"} THEN Tail(str) ELSE str
    IN  /\ \A i \in 1..Len(body) : IsDigit(body[i]) \/ body[i] = "."
        /\ \E i \in 1..Len(body) : IsDigit(body[i])
        /\ Cardinality({i \in 1..Len(body) : body[i] = "."}) <= 1

\* mutant: five digits are kept as text under every header
typedCellSerialAnywhere(h, v) ==
    LET trimmed == Trim(v)
    IN  IF trimmed = <<>> THEN [t |-> "null", s |-> <<>>]
        ELSE IF MatchesYmd(trimmed) \/ MatchesMdy(trimmed)
        THEN [t |-> "string", s |-> trimmed]
        ELSE IF MatchesSerial(trimmed)
        THEN [t |-> "string", s |-> trimmed]
        ELSE IF IsNumberText(trimmed) THEN [t |-> "number", s |-> trimmed]
        ELSE [t |-> "string", s |-> trimmed]

\* the typed cell of lines 92-105, for column key h and raw value v
typedCell(h, v) ==
    LET trimmed == Trim(v)
    IN  IF trimmed = <<>> THEN [t |-> "null", s |-> <<>>]
        ELSE IF MatchesYmd(trimmed) \/ MatchesMdy(trimmed)
        THEN [t |-> "string", s |-> trimmed]
        ELSE IF MatchesSerial(trimmed) /\ ContainsDate(h)
        THEN [t |-> "string", s |-> trimmed]
        ELSE IF IsNumberText(trimmed) THEN [t |-> "number", s |-> trimmed]
        ELSE [t |-> "string", s |-> trimmed]

\* lines 90-106: obj, assigned column by column (a later column with the
\* same key replaces the value of an earlier one)
RECURSIVE buildObjFrom(_, _, _, _)
buildObjFrom(uh, values, idx, obj) ==
    IF idx > Len(uh) THEN obj
    ELSE LET v == IF idx <= Len(values) THEN values[idx] ELSE <<>>
         IN  buildObjFrom(uh, values, idx + 1,
                          (Trim(uh[idx]) :> typedCell(uh[idx], v)) @@ obj)

\* lines 87-108: one Row per data line that is not fully blank
RECURSIVE buildRowsFrom(_, _, _, _)
buildRowsFrom(uh, rows, i, acc) ==
    IF i > Len(rows) THEN acc
    ELSE IF \A k \in 1..Len(rows[i]) : Trim(rows[i][k]) = <<>>
    THEN buildRowsFrom(uh, rows, i + 1, acc)
    ELSE buildRowsFrom(uh, rows, i + 1,
                       Append(acc, buildObjFrom(uh, rows[i], 1, EmptyMap)))

\* parseCsv as a whole: [lines, rows, uniqueHeaders, result]
parseCsv(txt) ==
    LET lines == parseCsvLines(txt)
        rows == [k \in 1..Len(lines) |-> splitRow(lines[k])]
    IN  IF lines = <<>>
        THEN [lines |-> lines, rows |-> rows, uniqueHeaders |-> <<>>,
              result |-> <<>>]
        ELSE LET uh == uniqueHeadersOf(rows[1])
             IN  [lines |-> lines, rows |-> rows, uniqueHeaders |-> uh,
                  result |-> buildRowsFrom(uh, rows, 2, <<>>)]

----------------------------------------------------------------------------
(* portfolio.js: splitCsvLines (lines 9-34) *)

RECURSIVE splitCsvLinesFrom(_, _, _, _, _)
splitCsvLinesFrom(txt, i, current, inQuotes, lines) ==
    IF i > Len(txt)
    THEN IF Trim(current) # <<>> THEN Append(lines, current) ELSE lines
    ELSE LET ch == txt[i]
         IN  IF ch = QUOTE
             THEN IF inQuotes /\ i + 1 <= Len(txt) /\ txt[i + 1] = QUOTE
                  THEN splitCsvLinesFrom(txt, i + 2,
                                         current \o <<QUOTE, QUOTE>>,
                                         inQuotes, lines)
                  ELSE splitCsvLinesFrom(txt, i + 1, Append(current, QUOTE),
                                         ~inQuotes, lines)
             ELSE IF ch = NL /\ ~inQuotes
             THEN splitCsvLinesFrom(txt, i + 1, <<>>, inQuotes,
                                    Append(lines, current))
             ELSE IF ch = CR /\ ~inQuotes
             THEN splitCsvLinesFrom(txt, i + 1, current, inQuotes, lines)
             ELSE splitCsvLinesFrom(txt, i + 1, Append(current, ch),
                                    inQuotes, lines)

splitCsvLines(txt) == splitCsvLinesFrom(txt, 1, <<>>, FALSE, <<>>)

----------------------------------------------------------------------------
(* The tokenizers on an encoded field *)

\* the escaping convention the tokenizers read: the value wrapped in double
\* quotes, each inner quote doubled
RECURSIVE DoubleQuotes(_)
DoubleQuotes(str) ==
    IF str = <<>> THEN <<>>
    ELSE (IF Head(str) = QUOTE THEN <<QUOTE, QUOTE>> ELSE <<Head(str)>>)
            \o DoubleQuotes(Tail(str))

EncodeField(str) == <<QUOTE>> \o DoubleQuotes(str) \o <<QUOTE>>

FieldChars == {"a", COMMA, NL, QUOTE}
HeaderLine == <<"h", COMMA, "k", COMMA, "m">>
LeftField == <<"x">>
RightField == <<"y">>

\* a header line and one data line  x,<encoded field>,y  with or without a
\* line break at the end of the text
CsvTextOf(f, lastBreak) ==
    HeaderLine \o <<NL>> \o LeftField \o <<COMMA>> \o EncodeField(f)
        \o <<COMMA>> \o RightField \o (IF lastBreak THEN <<NL>> ELSE <<>>)

InitCsv ==
    /\ pc = "ready"
    /\ field \in SeqsUpTo(FieldChars, MaxFieldLen)
    /\ \E lastBreak \in BOOLEAN : text = CsvTextOf(field, lastBreak)
    /\ tokenizer = "none"
    /\ tokLines = <<>>
    /\ tokRows = <<>>
    /\ uniqueHeaders = <<>>
    /\ result = <<>>
    /\ IdleExcept({"csv"})

\* sheets.js parseCsv(text); lines and the split rows are its intermediate
\* values
ParseCsv ==
    /\ pc = "ready"
    /\ tokenizer' = "sheets"
    /\ tokLines' = parseCsv(text).lines
    /\ tokRows' = parseCsv(text).rows
    /\ uniqueHeaders' = parseCsv(text).uniqueHeaders
    /\ result' = parseCsv(text).result
    /\ pc' = "done"
    /\ UNCHANGED <<text, field>>
    /\ UNCHANGED othersOfCsv

\* portfolio.js parsePortfolioSections: splitCsvLines, then splitRow per line
PortfolioTokenize ==
    /\ pc = "ready"
    /\ tokenizer' = "portfolio"
    /\ tokLines' = splitCsvLines(text)
    /\ tokRows' = [k \in 1..Len(splitCsvLines(text)) |->
                      splitRow(splitCsvLines(text)[k])]
    /\ pc' = "done"
    /\ UNCHANGED <<text, field, uniqueHeaders, result>>
    /\ UNCHANGED othersOfCsv

NextCsv == ParseCsv \/ PortfolioTokenize

SpecCsv == InitCsv /\ [][NextCsv]_vars

----------------------------------------------------------------------------
(* parseCsv on a sheet with repeated header names *)

HeaderNames == { <<"A">>, <<"B">>, <<"A", "_", "2">>, <<SP, "A">> }

RECURSIVE JoinComma(_)
JoinComma(flds) ==
    IF flds = <<>> THEN <<>>
    ELSE IF Len(flds) = 1 THEN Head(flds)
    ELSE Head(flds) \o <<COMMA>> \o JoinComma(Tail(flds))

\* a header line and one data line whose k-th cell is the number k; the
\* data line may stop after its first cell
SheetTextOf(headers, short) ==
    JoinComma(headers) \o <<NL>>
        \o JoinComma([k \in 1..(IF short THEN 1 ELSE Len(headers)) |-> Digits(k)])

InitSheet ==
    /\ pc = "ready"
    /\ field = <<>>
    /\ \E n \in 1..MaxCols : \E headers \in [1..n -> HeaderNames] :
          \E short \in BOOLEAN : text = SheetTextOf(headers, short)
    /\ tokenizer = "none"
    /\ tokLines = <<>>
    /\ tokRows = <<>>
    /\ uniqueHeaders = <<>>
    /\ result = <<>>
    /\ IdleExcept({"csv"})

NextSheet == ParseCsv

SpecSheet == InitSheet /\ [][NextSheet]_vars

\* parseCsv on a sheet of two columns and one data line: the header and the
\* cell under study first, then a column K holding 1 (so the line is not
\* skipped as blank)
CellHeaders ==
    { <<"D", "a", "t", "e">>, <<"D", "A", "T", "E">>,
      <<"d", "a", "t", "e", "_", "2">>, <<"U", "p", "d", "a", "t", "e">>,
      <<"D", "a", "t">>, <<"P", "r", "i", "c", "e">> }

CellTexts ==
    { <<>>, <<SP>>, <<"4", "5", "0", "0", "0">>, <<SP, "4", "5", "0", "0", "0", SP>>,
      <<"0", "0", "0", "1", "2">>, <<"4", "5", "0", "0">>,
      <<"4", "5", "0", "0", "0", "0">>, <<"4", "5", "0", "0", "0", "x">>,
      <<"2", "0", "2", "4", "-", "3", "-", "7">>,
      <<"2", "0", "2", "4", "-", "0", "3", "-", "0", "7", "T">>,
      <<"3", "/", "7", "/", "2", "0", "2", "4">>,
      <<"3", "/", "7", "/", "2", "4">>, <<"2", "0", "2", "4", "-", "3">>,
      <<"1", "2", ".", "5">>, <<"-", "3">>, <<"+", ".", "5">>,
      <<"1", ".", "2", ".", "3">>, <<"-">>, <<SP, "a", "b", SP>> }

CellSheetTextOf(h, v) == h \o <<COMMA, "K", NL>> \o v \o <<COMMA, "1">>

InitCell ==
    /\ pc = "ready"
    /\ field \in CellTexts
    /\ \E h \in CellHeaders : text = CellSheetTextOf(h, field)
    /\ tokenizer = "none"
    /\ tokLines = <<>>
    /\ tokRows = <<>>
    /\ uniqueHeaders = <<>>
    /\ result = <<>>
    /\ IdleExcept({"csv"})

NextCell == ParseCsv

SpecCell == InitCell /\ [][NextCell]_vars

----------------------------------------------------------------------------
(* screener.js: stripFormula and the ALL view of renderScreenTable *)

\* further cells: '' and a =HYPERLINK("...","<v>") formula showing v
Empty == [t |-> "empty", v |-> 0]
Formula(n) == [t |-> "formula", v |-> n]

\* stripFormula (lines 1189-1195) of row[key]: the ticker identity as
\* [some, id]; some = FALSE stands for the empty string (null, undefined
\* and '' all strip to it)
stripFormula(row, key) ==
    IF key \notin DOMAIN row \/ row[key].t \in {"null", "empty"}
    THEN [some |-> FALSE, id |-> 0]
    ELSE [some |-> TRUE, id |-> row[key].v]

\* x == null || x === ''   for the value of key in a row (undefined == null)
IsBlank(row, key) == key \notin DOMAIN row \/ row[key].t \in {"null", "empty"}

\* mutant: a later row's non-empty value replaces the accumulated one
mergeIntoLastWins(existing, row) ==
    [key \in DOMAIN existing \cup
                {k \in DOMAIN row : ~IsBlank(row, k)} |->
        IF key \in DOMAIN row /\ ~IsBlank(row, key)
        THEN row[key] ELSE existing[key]]

\* lines 935-941: the fields of row merged into the accumulated record
mergeInto(existing, row) ==
    [key \in DOMAIN existing \cup
                {k \in DOMAIN row : IsBlank(existing, k) /\ ~IsBlank(row, k)} |->
        IF key \in DOMAIN row /\ IsBlank(existing, key) /\ ~IsBlank(row, key)
        THEN row[key] ELSE existing[key]]

\* mutant: a row without a ticker is pushed like any other
mergeRowKeepEmpty(st, screenKey, row) ==
    LET ticker == stripFormula(row, "Ticker")
    IN  IF ticker.some /\ ticker.id \in DOMAIN st.seen
        THEN [st EXCEPT !.data[st.seen[ticker.id]] = mergeInto(@, row)]
        ELSE [seen |-> IF ticker.some
                       THEN (ticker.id :> Len(st.data) + 1) @@ st.seen
                       ELSE st.seen,
              data |-> Append(st.data, ("_screenKey" :> screenKey) @@ row)]

\* lines 930-946 for one row; st = [seen, data], seen: ticker id -> index
mergeRow(st, screenKey, row) ==
    LET ticker == stripFormula(row, "Ticker")
    IN  IF ~ticker.some THEN st
        ELSE IF ticker.id \in DOMAIN st.seen
        THEN [st EXCEPT !.data[st.seen[ticker.id]] = mergeInto(@, row)]
        ELSE [seen |-> (ticker.id :> Len(st.data) + 1) @@ st.seen,
              data |-> Append(st.data, ("_screenKey" :> screenKey) @@ row)]

RECURSIVE mergeRowsFrom(_, _, _, _)
mergeRowsFrom(st, screenKey, rows, i) ==
    IF i > Len(rows) THEN st
    ELSE CHOOSE out \in { mergeRowsFrom(next, screenKey, rows, i + 1) :
                             next \in {mergeRow(st, screenKey, rows[i])} } : TRUE

RECURSIVE mergeEntriesFrom(_, _, _)
mergeEntriesFrom(st, entries, e) ==
    IF e > Len(entries) THEN st
    ELSE CHOOSE out \in
           { mergeEntriesFrom(next, entries, e + 1) :
             next \in {mergeRowsFrom(st, entries[e].key, entries[e].rows, 1)} } :
            TRUE

\* lines 924-950, with no sector filter, no search text and no sort active
\* (the state initScreener leaves: lines 803-805, 828-829)
renderScreenTableData(entries, screen) ==
    IF screen = "ALL"
    THEN mergeEntriesFrom([seen |-> EmptyMap, data |-> <<>>], entries, 1).data
    ELSE LET hit == {e \in 1..Len(entries) : entries[e].key = screen}
         IN  IF hit = {} THEN <<>> ELSE entries[CHOOSE e \in hit : TRUE].rows

\* source tables
ScreenKeys == <<"St_Momentum", "St_21EMA", "St_Movers">>

ScreenRow(tk, x, y) == ("Ticker" :> tk) @@ ("X" :> x) @@ ("Y" :> y)
ScreenRows ==
    { ScreenRow(Num(1234), Null, Num(5)),
      ScreenRow(Formula(1234), Num(9), Num(1)),
      ("Ticker" :> Num(1234)) @@ ("Y" :> Empty),        \* no column X
      ScreenRow(Num(1234), Num(0), Null),
      ScreenRow(Num(5678), Num(9), Num(5)),
      ScreenRow(Null, Num(9), Num(1)) }                 \* no ticker

\* the rows of tagged, in order, whose source is number k
RowsOfSource(tagged, k) ==
    LET pick == SelectSeq(tagged, LAMBDA p : p[1] = k)
    IN  [i \in 1..Len(pick) |-> pick[i][2]]

\* at most MaxMergeRows rows in all, spread over the sources
InitScreener ==
    /\ pc = "ready"
    /\ \E tagged \in SeqsUpTo((1..Len(ScreenKeys)) \X ScreenRows, MaxMergeRows) :
          /\ \A i \in 1..(Len(tagged) - 1) : tagged[i][1] <= tagged[i + 1][1]
          /\ screenData = [k \in 1..Len(ScreenKeys) |->
                              [key |-> ScreenKeys[k],
                               rows |-> RowsOfSource(tagged, k)]]
    /\ currentScreen \in {"ALL", ScreenKeys[1]}
    /\ data = <<>>
    /\ IdleExcept({"screener"})

RenderScreenTable ==
    /\ pc = "ready"
    /\ data' = renderScreenTableData(screenData, currentScreen)
    /\ pc' = "done"
    /\ UNCHANGED <<screenData, currentScreen>>
    /\ UNCHANGED othersOfScreener

NextScreener == RenderScreenTable

SpecScreener == InitScreener /\ [][NextScreener]_vars

----------------------------------------------------------------------------
(* screener.js: buildTickerMap, the overlap list, the sort of the table *)

\* a text cell whose content is label n
Text(n) == [t |-> "txt", v |-> n]

\* row.Sector || ''
sectorOrEmpty(r) ==
    IF "Sector" \in DOMAIN r /\ (Truthy(r["Sector"]) \/ r["Sector"].t = "formula")
    THEN r["Sector"] ELSE Empty

\* mutant: every row appends its source, also when it is already listed
SetAddAlways(seq, x) == Append(seq, x)

\* Set.prototype.add on a Set kept in insertion order
SetAdd(seq, x) ==
    IF \E i \in 1..Len(seq) : seq[i] = x THEN seq ELSE Append(seq, x)

\* lines 774-781 for one row: map is ticker id -> entry
tickerMapRow(map, screenKey, r) ==
    LET ticker == stripFormula(r, "Ticker")
    IN  IF ~ticker.some THEN map
        ELSE LET m1 == IF ticker.id \in DOMAIN map THEN map
                       ELSE (ticker.id :>
                                [screens |-> <<>>,
                                 name |-> stripFormula(r, "Name"),
                                 sector |-> sectorOrEmpty(r),
                                 bestRow |-> r]) @@ map
             IN  [m1 EXCEPT ![ticker.id].screens = SetAdd(@, screenKey)]

RECURSIVE tickerMapRowsFrom(_, _, _, _)
tickerMapRowsFrom(map, screenKey, rows, i) ==
    IF i > Len(rows) THEN map
    ELSE CHOOSE out \in { tickerMapRowsFrom(next, screenKey, rows, i + 1) :
                             next \in {tickerMapRow(map, screenKey, rows[i])} } :
            TRUE

RECURSIVE tickerMapEntriesFrom(_, _, _)
tickerMapEntriesFrom(map, entries, e) ==
    IF e > Len(entries) THEN map
    ELSE CHOOSE out \in
           { tickerMapEntriesFrom(next, entries, e + 1) :
             next \in {tickerMapRowsFrom(map, entries[e].key,
                                         entries[e].rows, 1)} } : TRUE

\* buildTickerMap (lines 770-789); entries is Object.entries(data)
buildTickerMap(entries) ==
    LET map == tickerMapEntriesFrom(EmptyMap, entries, 1)
    IN  [id \in DOMAIN map |->
            [screens |-> map[id].screens,
             name |-> map[id].name,
             sector |-> map[id].sector,
             bestRow |-> map[id].bestRow,
             count |-> Len(map[id].screens)]]

\* the stable sort Array.prototype.sort performs with a consistent
\* comparator: x goes before y when cmp(x, y) < 0, ties keep their order
StableSort(seq, cmp(_, _)) ==
    LET n == Len(seq)
        rank(i) == 1 + Cardinality({j \in 1..n :
                          \/ cmp(seq[j], seq[i]) < 0
                          \/ cmp(seq[j], seq[i]) = 0 /\ j < i})
    IN  [k \in 1..n |-> seq[CHOOSE i \in 1..n : rank(i) = k]]

\* the keys of an object whose keys are integer-like: ascending
RECURSIVE AscendingKeys(_)
AscendingKeys(S) ==
    IF S = {} THEN <<>>
    ELSE LET m == CHOOSE x \in S : \A y \in S : x <= y
         IN  <<m>> \o AscendingKeys(S \ {m})

\* lines 892-894: the tickers with count >= 2, by descending count
dupStocksOf(map) ==
    LET dup == SelectSeq(AscendingKeys(DOMAIN map),
                         LAMBDA id : map[id].count >= 2)
    IN  StableSort(dup, LAMBDA a, b : map[b].count - map[a].count)

\* parseFloat of a cell, or of a missing property: [nan, v]
parseFloatCell(r, key) ==
    IF key \in DOMAIN r /\ r[key].t = "num"
    THEN [nan |-> FALSE, v |-> r[key].v]
    ELSE [nan |-> TRUE, v |-> 0]

\* mutant: a value that does not parse counts as 0
numMissingZero(r, key) ==
    LET n == parseFloatCell(r, key) IN IF n.nan THEN 0 ELSE n.v

\* num (lines 1184-1187)
num(r, key) ==
    LET n == parseFloatCell(r, key) IN IF n.nan THEN -9999 ELSE n.v

\* String(va || '') of a stripped value as a sort key: the ids are
\* equal-length digit strings, which compare as numbers; '' comes first
textKey(sv) == IF sv.some THEN sv.id ELSE -1

Sign(x) == IF x < 0 THEN -1 ELSE IF x > 0 THEN 1 ELSE 0

\* tickerMap[stripFormula(a.Ticker)]?.count || 0
screensCount(map, r) ==
    LET ticker == stripFormula(r, "Ticker")
    IN  IF ticker.some /\ ticker.id \in DOMAIN map
        THEN map[ticker.id].count ELSE 0

\* mutant: the direction is applied to the missing values as well
numericCompareFlipNaN(na, nb, dir) ==
    IF na.nan /\ nb.nan THEN 0
    ELSE IF na.nan THEN dir
    ELSE IF nb.nan THEN -dir
    ELSE (na.v - nb.v) * dir

\* lines 988-992
numericCompare(na, nb, dir) ==
    IF na.nan /\ nb.nan THEN 0
    ELSE IF na.nan THEN 1
    ELSE IF nb.nan THEN -1
    ELSE (na.v - nb.v) * dir

\* the comparator of the header sort (lines 971-993)
headerCompare(a, b, hs, map) ==
    LET dir == IF hs.dir = "asc" THEN 1 ELSE -1
    IN  IF hs.col \in {"Ticker", "Name", "Sector"}   \* sectors are plain text
        THEN Sign(textKey(stripFormula(a, hs.col))
                    - textKey(stripFormula(b, hs.col))) * dir
        ELSE IF hs.col = "Screens"
        THEN numericCompare([nan |-> FALSE, v |-> screensCount(map, a)],
                            [nan |-> FALSE, v |-> screensCount(map, b)], dir)
        ELSE numericCompare(parseFloatCell(a, hs.col),
                            parseFloatCell(b, hs.col), dir)

\* the comparators of the sort dropdown (lines 995-1000)
dropdownSort(rows, sortKey) ==
    CASE sortKey = "rs21-desc" ->
            StableSort(rows, LAMBDA a, b : num(b, "RS21") - num(a, "RS21"))
      [] sortKey = "rs21-asc" ->
            StableSort(rows, LAMBDA a, b : num(a, "RS21") - num(b, "RS21"))
      [] sortKey = "change-desc" ->
            StableSort(rows, LAMBDA a, b : num(b, "DAY%") - num(a, "DAY%"))
      [] sortKey = "change-asc" ->
            StableSort(rows, LAMBDA a, b : num(a, "DAY%") - num(b, "DAY%"))
      [] OTHER -> rows

\* mutant: the dropdown is consulted first
sortRowsDropdownFirst(rows, hs, sortKey, map) ==
    IF sortKey # "default" THEN dropdownSort(rows, sortKey)
    ELSE IF hs.col # ""
    THEN StableSort(rows, LAMBDA a, b : headerCompare(a, b, hs, map))
    ELSE rows

\* lines 967-1001: header sort takes priority over the dropdown
sortRows(rows, hs, sortKey, map) ==
    IF hs.col # ""
    THEN StableSort(rows, LAMBDA a, b : headerCompare(a, b, hs, map))
    ELSE dropdownSort(rows, sortKey)

\* renderScreenTable (lines 921-1001): the rows of the table, with
\* currentSector = null and an empty search box
renderScreenTable(entries, screen, hs, sortKey, map) ==
    sortRows(renderScreenTableData(entries, screen), hs, sortKey, map)

\* String(v) of a number, as its sequence of characters: the digits, and
\* -1 for the minus sign
RECURSIVE decimal(_)
decimal(n) ==
    IF n < 0 THEN <<-1>> \o decimal(-n)
    ELSE IF n < 10 THEN <<n>>
    ELSE decimal(n \div 10) \o <<n % 10>>

\* row[key] && String(row[key]).toLowerCase().includes(q)  (lines 961-963);
\* the cell texts of the model are digit strings, which toLowerCase
\* leaves as they are
cellIncludes(r, key, q) ==
    /\ key \in DOMAIN r
    /\ Truthy(r[key]) \/ r[key].t = "formula"
    /\ LET str == decimal(r[key].v)
       IN  \E i \in 1..(Len(str) - Len(q) + 1) :
              SubSeq(str, i, i + Len(q) - 1) = q

\* mutant: the sector filter is skipped
sectorFilterOff(rows, sector) == rows

\* lines 952-955
sectorFilter(rows, sector) ==
    IF sector = Null THEN rows
    ELSE SelectSeq(rows, LAMBDA r : "Sector" \in DOMAIN r /\ r["Sector"] = sector)

\* lines 957-965
searchFilter(rows, q) ==
    IF q = <<>> THEN rows
    ELSE SelectSeq(rows, LAMBDA r : \/ cellIncludes(r, "Ticker", q)
                                    \/ cellIncludes(r, "Name", q)
                                    \/ cellIncludes(r, "Sector", q))

\* Which source object a value of renderScreenTable is the same object
\* as: a record of data is either a new object (<<>>) or the row at
\* <<e, i>> of the source tables; the array data is either a new array
\* ("") or the rows array of the source with that key.

\* mutant: the source row itself is tagged and pushed
spreadRowAliased(at) == at

\* line 945, { ...row, _screenKey: screenKey }: a new object
spreadRow(at) == <<>>

\* mutant: data is the source's own array
spreadArrayAliased(key) == key

\* line 949, [...(screenData[currentScreen] || [])]: a new array
spreadArray(key) == ""

\* the source tables after an assignment to the fields of the row at <<e, i>>
writeRow(entries, at, r) == [entries EXCEPT ![at[1]].rows[at[2]] = r]

\* lines 930-946 for the row at <<e, i>>, with the objects it writes to;
\* st = [seen, data, same, sources], same[k]: the source row data[k] is
mergeRowAt(st, at) ==
    CHOOSE out \in
      { IF Len(next.data) > Len(st.data)
        THEN [seen |-> next.seen,
              data |-> next.data,
              same |-> Append(st.same, spreadRow(at)),
              sources |-> IF spreadRow(at) = <<>> THEN st.sources
                          ELSE writeRow(st.sources, at, next.data[Len(next.data)])]
        ELSE LET written == {k \in 1..Len(st.data) :
                                next.data[k] # st.data[k] /\ st.same[k] # <<>>}
             IN  [seen |-> next.seen,
                  data |-> next.data,
                  same |-> st.same,
                  sources |-> IF written = {} THEN st.sources
                              ELSE LET k == CHOOSE k \in written : TRUE
                                   IN  writeRow(st.sources, st.same[k],
                                                next.data[k])] :
        next \in {mergeRow([seen |-> st.seen, data |-> st.data],
                           st.sources[at[1]].key,
                           st.sources[at[1]].rows[at[2]])} } : TRUE

RECURSIVE mergeRowsAtFrom(_, _, _)
mergeRowsAtFrom(st, e, i) ==
    IF i > Len(st.sources[e].rows) THEN st
    ELSE CHOOSE out \in { mergeRowsAtFrom(next, e, i + 1) :
                             next \in {mergeRowAt(st, <<e, i>>)} } : TRUE

RECURSIVE mergeEntriesAtFrom(_, _)
mergeEntriesAtFrom(st, e) ==
    IF e > Len(st.sources) THEN st
    ELSE CHOOSE out \in { mergeEntriesAtFrom(next, e + 1) :
                             next \in {mergeRowsAtFrom(st, e, 1)} } : TRUE

\* lines 924-950: [data, same, sources]; same is the key of the source
\* whose rows array data is, "" for a new array
collectRows(entries, screen) ==
    IF screen = "ALL"
    THEN CHOOSE out \in
           { [data |-> st.data, same |-> "", sources |-> st.sources] :
             st \in {mergeEntriesAtFrom([seen |-> EmptyMap, data |-> <<>>,
                                         same |-> <<>>, sources |-> entries],
                                        1)} } : TRUE
    ELSE [data |-> renderScreenTableData(entries, screen),
          same |-> IF \E e \in 1..Len(entries) : entries[e].key = screen
                   THEN spreadArray(screen) ELSE "",
          sources |-> entries]

\* Array.prototype.filter returns a new array
filterRows(got, sector, q) ==
    [got EXCEPT !.data = searchFilter(sectorFilter(@, sector), q),
                !.same = IF sector = Null /\ q = <<>> THEN @ ELSE ""]

\* Array.prototype.sort sorts the array it is called on
sortInPlace(got, hs, sortKey, map) ==
    CHOOSE out \in
      { [data |-> sorted,
         sources |-> [e \in 1..Len(got.sources) |->
                         IF got.sources[e].key = got.same
                         THEN [got.sources[e] EXCEPT !.rows = sorted]
                         ELSE got.sources[e]]] :
        sorted \in {sortRows(got.data, hs, sortKey, map)} } : TRUE

\* renderScreenTable (lines 921-1001) under a sector filter and a search
\* text: [data, sources], the rows of the table and the source tables as
\* the call leaves them
renderScreenTableOn(entries, screen, sector, q, hs, sortKey, map) ==
    CHOOSE out \in { sortInPlace(got, hs, sortKey, map) :
                       got \in {filterRows(collectRows(entries, screen),
                                           sector, q)} } : TRUE

\* mutant: a click always selects the column with direction desc
clickHeaderNoFlip(hs, col) == [col |-> col, dir |-> "desc"]

\* the th click handler (lines 1043-1049)
clickHeader(hs, col) ==
    IF hs.col = col
    THEN [hs EXCEPT !.dir = IF hs.dir = "desc" THEN "asc" ELSE "desc"]
    ELSE [col |-> col, dir |-> "desc"]

\* initScreener (lines 794-833) called with the source tables d
initScreenerWith(d) ==
    \E out \in {renderScreenTableOn(d, "ALL", Null, <<>>, NoSort, "default",
                                     buildTickerMap(d))} :
        /\ screenData' = out.sources
        /\ tickerMap' = buildTickerMap(d)
        /\ currentScreen' = "ALL"
        /\ headerSort' = NoSort
        /\ currentSector' = Null
        /\ searchInput' = <<>>
        /\ sortSelect' = "default"
        /\ dupStocks' = dupStocksOf(buildTickerMap(d))
        /\ data' = out.data

\* rerender (lines 762-764, 868-919) under the new screen, sector, search
\* text, sort and dropdown
rerenderWith(screen, sector, q, hs, sortKey) ==
    \E out \in {renderScreenTableOn(screenData, screen, sector, q, hs,
                                     sortKey, tickerMap)} :
        /\ dupStocks' = IF screen = "ALL" THEN dupStocksOf(tickerMap) ELSE <<>>
        /\ screenData' = out.sources
        /\ data' = out.data

\* the three source tables with rows r1, r2, r3
TablesOf(r1, r2, r3) ==
    <<[key |-> ScreenKeys[1], rows |-> r1],
      [key |-> ScreenKeys[2], rows |-> r2],
      [key |-> ScreenKeys[3], rows |-> r3]>>

\* how many rows each source has when there are at most n in all
RowCounts(n) == { c \in [1..Len(ScreenKeys) -> 0..n] : SumSeq(c) <= n }

\* source tables of at most n rows in all, rows drawn from RowSet
SourceTables(RowSet, n) ==
    UNION { { TablesOf(r1, r2, r3) :
              r1 \in [1..c[1] -> RowSet], r2 \in [1..c[2] -> RowSet],
              r3 \in [1..c[3] -> RowSet] } : c \in RowCounts(n) }

\* one call of initScreener on tables of at most n rows in all, rows
\* drawn from RowSet
InitScreenerOver(RowSet, n) ==
    /\ pc = "ready"
    /\ \E c \in RowCounts(n) :
          \E r1 \in [1..c[1] -> RowSet], r2 \in [1..c[2] -> RowSet],
             r3 \in [1..c[3] -> RowSet] : initScreenerWith(TablesOf(r1, r2, r3))
    /\ pc' = "done"
    /\ UNCHANGED othersOfTable

AllIdle == IdleExcept({})

----------------------------------------------------------------------------
(* Cross-screen overlap map: initScreener on tables of ticker rows *)

MaxMapRows == 5

MapRows ==
    { ("Ticker" :> Num(1234)),
      ("Ticker" :> Formula(1234)),
      ("Ticker" :> Num(5678)),
      ("Ticker" :> Null) }

InitTickerMap == pc = "ready" /\ AllIdle

NextTickerMap == InitScreenerOver(MapRows, MaxMapRows)

SpecTickerMap == InitTickerMap /\ [][NextTickerMap]_vars

----------------------------------------------------------------------------
(* Screener table: tabs, header sort and sort dropdown *)

MaxTableRows == 3

TableRow(tk, name, rs) == ("Ticker" :> tk) @@ ("Name" :> name) @@ ("RS21" :> rs)

TableRows ==
    { TableRow(Num(1234), Text(1), Num(3)),
      TableRow(Formula(1234), Text(2), Null),
      TableRow(Num(5678), Text(3), Num(1)),
      TableRow(Null, Text(4), Num(9)),
      TableRow(Num(9012), Formula(5), Txt) }

Tabs == {"ALL", ScreenKeys[1], ScreenKeys[2]}
HeaderCols == {"Ticker", "Screens", "RS21"}
SortKeys == {"default", "rs21-desc", "rs21-asc", "change-desc"}

InitTable == pc = "ready" /\ AllIdle

\* a tab button's click listener (lines 844-848, 859-863, 809-812)
ClickTab ==
    /\ pc = "done"
    /\ \E screen \in Tabs :
          /\ currentScreen' = screen
          /\ headerSort' = NoSort
          /\ rerenderWith(screen, currentSector, searchInput, NoSort, sortSelect)
    /\ UNCHANGED <<pc, tickerMap, sortSelect, currentSector, searchInput>>
    /\ UNCHANGED othersOfTable

\* mutant: the dropdown keeps its option
sortSelectKept(value) == value

\* line 1050, if (_sortSelect) _sortSelect.value = 'default'
sortSelectReset(value) == "default"

\* a column header's click listener (lines 1042-1052)
ClickHeader ==
    /\ pc = "done"
    /\ \E col \in HeaderCols :
          /\ headerSort' = clickHeader(headerSort, col)
          /\ sortSelect' = sortSelectReset(sortSelect)
          /\ rerenderWith(currentScreen, currentSector, searchInput,
                          clickHeader(headerSort, col),
                          sortSelectReset(sortSelect))
    /\ UNCHANGED <<pc, tickerMap, currentScreen, currentSector, searchInput>>
    /\ UNCHANGED othersOfTable

\* the dropdown's change listener (lines 820-823)
ChangeSort ==
    /\ pc = "done"
    /\ \E key \in SortKeys :
          /\ sortSelect' = key
          /\ headerSort' = NoSort
          /\ rerenderWith(currentScreen, currentSector, searchInput, NoSort, key)
    /\ UNCHANGED <<pc, tickerMap, currentScreen, currentSector, searchInput>>
    /\ UNCHANGED othersOfTable

NextTable ==
    \/ InitScreenerOver(TableRows, MaxTableRows)
    \/ ClickTab
    \/ ClickHeader
    \/ ChangeSort

SpecTable == InitTable /\ [][NextTable]_vars

----------------------------------------------------------------------------
(* Screener events: the six listeners over tables with sectors *)

MaxEventRows == 2

EventRow(tk, name, sector, rs, day) ==
    ("Ticker" :> tk) @@ ("Name" :> name) @@ ("Sector" :> sector)
        @@ ("RS21" :> rs) @@ ("DAY%" :> day)

EventRows ==
    { EventRow(Num(1234), Text(1), Text(7), Num(3), Null),
      EventRow(Formula(1234), Null, Text(8), Null, Num(2)),
      EventRow(Num(5678), Text(3), Text(8), Num(-10000), Num(-9999)),
      EventRow(Null, Text(4), Null, Txt, Num(-1)) }

SearchTexts == {<<>>, <<2, 3>>}
EventSortKeys == SortKeys \cup {"change-asc"}

\* lines 1137-1148: the names on the sector chips
sectorNames(entries) ==
    { entries[e].rows[i]["Sector"] :
        <<e, i>> \in { p \in (1..Len(entries)) \X (1..MaxEventRows + 1) :
                         /\ p[2] <= Len(entries[p[1]].rows)
                         /\ "Sector" \in DOMAIN entries[p[1]].rows[p[2]]
                         /\ Truthy(entries[p[1]].rows[p[2]]["Sector"]) } }

InitEvents == pc = "ready" /\ AllIdle

\* initScreener (lines 794-833): the first call, on any tables, and a
\* later call on tables with the content of the first; arg keeps the
\* tables as they were passed
InitScreenerCall ==
    /\ \E d \in IF pc = "ready"
                THEN SourceTables(EventRows, MaxEventRows) ELSE {arg.data} :
          /\ initScreenerWith(d)
          /\ arg' = [data |-> d]
    /\ pc' = "done"
    /\ UNCHANGED <<scoringVars, csvVars, loadVars, ret>>

\* the dropdown's change listener (lines 820-823), over all its options
ChangeSortAny ==
    /\ pc = "done"
    /\ \E key \in EventSortKeys :
          /\ sortSelect' = key
          /\ headerSort' = NoSort
          /\ rerenderWith(currentScreen, currentSector, searchInput, NoSort, key)
    /\ UNCHANGED <<pc, tickerMap, currentScreen, currentSector, searchInput>>
    /\ UNCHANGED othersOfTable

\* the search box's input listener (line 819)
SearchInput ==
    /\ pc = "done"
    /\ \E q \in SearchTexts :
          /\ searchInput' = q
          /\ rerenderWith(currentScreen, currentSector, q, headerSort, sortSelect)
    /\ UNCHANGED <<pc, tickerMap, currentScreen, currentSector, headerSort,
                   sortSelect>>
    /\ UNCHANGED othersOfTable

\* a sector chip's click listener (lines 1161-1165, 1173-1177)
ClickSector ==
    /\ pc = "done"
    /\ \E name \in sectorNames(screenData) \cup {Null} :
          /\ currentSector' = name
          /\ rerenderWith(currentScreen, name, searchInput, headerSort, sortSelect)
    /\ UNCHANGED <<pc, tickerMap, currentScreen, searchInput, headerSort,
                   sortSelect>>
    /\ UNCHANGED othersOfTable

NextEvents ==
    \/ InitScreenerCall
    \/ ClickTab
    \/ ClickHeader
    \/ ChangeSortAny
    \/ SearchInput
    \/ ClickSector

SpecEvents == InitEvents /\ [][NextEvents]_vars

----------------------------------------------------------------------------
(* Screener controls: the listeners between repeated initScreener calls *)

MaxInits == 2
MaxControlRows == 1

\* the number of initScreener calls so far
inits == IF arg = EmptyMap THEN 0 ELSE arg.inits

InitControls == pc = "ready" /\ AllIdle

\* initScreener (lines 794-833), called up to MaxInits times: on any
\* tables first, then on tables with the content of the first
InitScreenerNth ==
    /\ inits < MaxInits
    /\ \E d \in IF pc = "ready"
                THEN SourceTables(EventRows, MaxControlRows) ELSE {arg.data} :
          /\ initScreenerWith(d)
          /\ arg' = [data |-> d, inits |-> inits + 1]
    /\ pc' = "done"
    /\ UNCHANGED <<scoringVars, csvVars, loadVars, ret>>

NextControls ==
    \/ InitScreenerNth
    \/ ClickTab
    \/ ClickHeader
    \/ ChangeSortAny
    \/ SearchInput
    \/ ClickSector

SpecControls == InitControls /\ [][NextControls]_vars

----------------------------------------------------------------------------
(* app.js loadData and sheets.js fetchSheets: the refresh cycle *)

MaxCalls == 2

\* the sheets loadData requests, in request order (four of the thirteen)
sheetNames == <<"Sectors", "St_Momentum", "St_21EMA", "St_History">>

Views == <<"market", "sector", "screener">>

\* mutant: no busy check
loadGuardNone(busy) == TRUE

\* line 112, if (isLoading) return: TRUE when the call goes on
loadGuard(busy) == ~busy

\* how one fetchSheet call can end (sheets.js lines 116-131): a parsed
\* table, or a throw: unknown sheet name (line 11), network fault, non-OK
\* status (line 119), HTML instead of CSV (line 123)
FetchOutcomes == {"parsed", "unknown", "network", "status", "html"}
fetchSheetThrows(outcome) == outcome # "parsed"

\* mutant: a fetch that throws leaves no entry
fetchSettledNoCatch(res, name, ok, table) ==
    IF ok THEN Append(res, [key |-> name, rows |-> table]) ELSE res

\* sheets.js lines 138-145: results[name] = the parsed table, or [] when
\* fetchSheet threw; a new key goes to the end of the object's key order
fetchSettled(res, name, ok, table) ==
    Append(res, [key |-> name, rows |-> IF ok THEN table ELSE <<>>])

\* lines 182-187: the entries of data whose key starts with 'St_' and is
\* not 'St_History', in Object.keys(data) order
screenDataOf(res) ==
    SelectSeq(res, LAMBDA e : /\ e.key \in {"St_Momentum", "St_21EMA", "St_History"}
                              /\ e.key # "St_History")

\* mutant: an exception of a view leaves its try block uncaught
renderViewUncaught(st, view, throws) ==
    IF st.aborted THEN st
    ELSE IF throws THEN [st EXCEPT !.threw = @ \cup {view}, !.aborted = TRUE]
    ELSE [st EXCEPT !.rendered = @ \cup {view}]

\* one of the try { render } catch { console.error } blocks of lines
\* 153-219; aborted: control went to the outer catch of line 225
renderView(st, view, throws) ==
    IF st.aborted THEN st
    ELSE IF throws THEN [st EXCEPT !.threw = @ \cup {view}]
    ELSE [st EXCEPT !.rendered = @ \cup {view}]

RECURSIVE renderViewsFrom(_, _, _)
renderViewsFrom(st, i, throwing) ==
    IF i > Len(Views) THEN st
    ELSE renderViewsFrom(renderView(st, Views[i], Views[i] \in throwing),
                         i + 1, throwing)

LoadRow(tk, name, sector) ==
    ("Ticker" :> tk) @@ ("Name" :> name) @@ ("Sector" :> sector)

LoadTables ==
    { <<>>,
      <<LoadRow(Num(1234), Text(1), Text(7))>>,
      <<LoadRow(Formula(1234), Text(2), Text(8))>>,
      <<LoadRow(Num(5678), Text(3), Null), LoadRow(Num(1234), Null, Text(7))>> }

InitLoad ==
    /\ pc = "idle"
    /\ isLoading = FALSE
    /\ calls = 0
    /\ inFlight = 0
    /\ \E m, e \in LoadTables :
          served = [n \in {sheetNames[i] : i \in 1..Len(sheetNames)} |->
                       CASE n = "St_Momentum" -> m
                         [] n = "St_21EMA" -> e
                         [] n = "St_History" -> <<LoadRow(Num(1234), Text(9), Text(9))>>
                         [] OTHER -> <<("Sector" :> Text(7))>>]
    /\ pending = {}
    /\ failed = {}
    /\ results = <<>>
    /\ rendered = {}
    /\ threw = {}
    /\ lastUpdated = 0
    /\ IdleExcept({"load"})

\* loadData from its call to the await of fetchSheets (lines 111-126)
LoadData ==
    /\ calls < MaxCalls
    /\ calls' = calls + 1
    /\ IF loadGuard(isLoading)
       THEN /\ isLoading' = TRUE
            /\ inFlight' = inFlight + 1
            /\ pending' = {sheetNames[i] : i \in 1..Len(sheetNames)}
            /\ failed' = {}
            /\ results' = <<>>
            /\ rendered' = {}
            /\ threw' = {}
            /\ pc' = "fetching"
       ELSE UNCHANGED <<pc, isLoading, inFlight, pending, failed, results,
                        rendered, threw>>
    /\ UNCHANGED <<served, lastUpdated, screenerVars, tableVars>>
    /\ UNCHANGED othersOfLoad

\* one fetchSheet promise settles (sheets.js lines 138-145)
FetchSettle ==
    /\ pc = "fetching"
    /\ \E name \in pending, outcome \in FetchOutcomes :
          LET ok == ~fetchSheetThrows(outcome)
          IN  /\ results' = fetchSettled(results, name, ok, served[name])
              /\ failed' = IF ok THEN failed ELSE failed \cup {name}
              /\ pending' = pending \ {name}
    /\ UNCHANGED <<pc, isLoading, calls, inFlight, served, rendered, threw,
                   lastUpdated, screenerVars, tableVars>>
    /\ UNCHANGED othersOfLoad

\* where control can leave the try block outside the three view blocks:
\* the statements before them (lines 129-151), the timestamp (lines
\* 222-223), or nowhere
OuterThrows == {"none", "preamble", "timestamp"}

\* mutant: the busy flag is cleared at the end of the try block only
busyAfterTryOnly(outer) == outer # "none"

\* lines 233-237, finally { isLoading = false }: the flag after the cycle,
\* whether the try block completed or the catch block of line 225 ran
busyAfter(outer) == FALSE

\* loadData after the await: the three views, the timestamp, the catch and
\* finally blocks (lines 129-237); throwing: the views whose render
\* throws; outer: an exception outside the view blocks, recorded in threw
LoadDataResume ==
    /\ pc = "fetching"
    /\ pending = {}
    /\ \E throwing \in SUBSET {Views[i] : i \in 1..Len(Views)},
          outer \in OuterThrows :
          LET st == renderViewsFrom([rendered |-> {}, threw |-> {},
                                     aborted |-> outer = "preamble"],
                                    1, throwing)
          IN  /\ rendered' = st.rendered
              /\ threw' = st.threw \cup (IF outer = "none" THEN {} ELSE {outer})
              /\ IF "screener" \in st.rendered
                 THEN initScreenerWith(screenDataOf(results))
                 ELSE UNCHANGED <<screenerVars, tableVars>>
              /\ lastUpdated' = IF st.aborted \/ outer # "none" THEN lastUpdated
                                ELSE lastUpdated + 1
              /\ isLoading' = busyAfter(outer)
    /\ inFlight' = inFlight - 1
    /\ pc' = "idle"
    /\ UNCHANGED <<calls, served, pending, failed, results>>
    /\ UNCHANGED othersOfLoad

NextLoad == LoadData \/ FetchSettle \/ LoadDataResume

SpecLoad == InitLoad /\ [][NextLoad]_vars

\* the refresh cycle on one set of tables, with every pending fetch settling
\* in the end (the fetch layer) and the continuation of the await being run
\* once fetchSheets has resolved (the event loop); clicks are not forced
InitRefresh ==
    /\ InitLoad
    /\ served["St_Momentum"] = <<LoadRow(Num(1234), Text(1), Text(7))>>
    /\ served["St_21EMA"] = <<>>

NextRefresh == NextLoad

SpecRefresh ==
    /\ InitRefresh
    /\ [][NextRefresh]_vars
    /\ WF_vars(FetchSettle)
    /\ WF_vars(LoadDataResume)

----------------------------------------------------------------------------
(* screener.js: entryScore and the row highlight (values in tenths) *)

\* a ?? b ?? c over the properties keys of r: the first that is neither
\* null nor undefined, else undefined
Coalesce(r, keys) ==
    LET hit == {i \in 1..Len(keys) :
                   keys[i] \in DOMAIN r /\ r[keys[i]].t # "null"}
    IN  IF hit = {} THEN Null
        ELSE r[keys[CHOOSE i \in hit : \A j \in hit : i <= j]]

\* parseFloat of a cell value
parseFloatOf(c) ==
    IF c.t = "num" THEN [nan |-> FALSE, v |-> c.v] ELSE [nan |-> TRUE, v |-> 0]

\* lines 731-734
adr_ok(v) == v >= 25 /\ v <= 70
r21_ok(v) == v >= -3 /\ v <= 8
e21_ok(v) == v <= 40
r50_ok(v) == v <= 25

\* getEntry (lines 736-743); the keys R×21E and R×50S are written Rx21E, Rx50S
getEntry(r) ==
    [adr |-> parseFloatOf(Coalesce(r, <<"ADR%", "ADR%(20D)", "ADR">>)),
     atr21e |-> parseFloatOf(Coalesce(r, <<"Rx21E", "ATR_21EMA", "ATR21E_R">>)),
     e21p |-> parseFloatOf(Coalesce(r, <<"E21L%", "Dist_21EMA%">>)),
     atr50s |-> parseFloatOf(Coalesce(r, <<"Rx50S", "ATR_50SMA", "ATR50S_R">>))]

\* mutant: one unreadable metric fails the whole score
entryScoreAllOrNothing(r) ==
    LET e == getEntry(r)
    IN  IF e.adr.nan \/ e.atr21e.nan \/ e.e21p.nan \/ e.atr50s.nan THEN 0
        ELSE (IF adr_ok(e.adr.v) THEN 1 ELSE 0)
           + (IF r21_ok(e.atr21e.v) THEN 1 ELSE 0)
           + (IF e21_ok(e.e21p.v) THEN 1 ELSE 0)
           + (IF r50_ok(e.atr50s.v) THEN 1 ELSE 0)

\* entryScore (lines 745-753)
entryScore(r) ==
    LET e == getEntry(r)
    IN    (IF ~e.adr.nan /\ adr_ok(e.adr.v) THEN 1 ELSE 0)
        + (IF ~e.atr21e.nan /\ r21_ok(e.atr21e.v) THEN 1 ELSE 0)
        + (IF ~e.e21p.nan /\ e21_ok(e.e21p.v) THEN 1 ELSE 0)
        + (IF ~e.atr50s.nan /\ r50_ok(e.atr50s.v) THEN 1 ELSE 0)

\* lines 1061-1067: the background of a table row
rowBackground(dupCount, score) ==
    IF dupCount >= 3 THEN "high-dup"
    ELSE IF score >= 3 THEN "good-entry"
    ELSE "none"

\* scoreBadge (lines 1123-1127): the colour of the n/4 badge
scoreBadge(score) ==
    IF score >= 3 THEN "green" ELSE IF score >= 2 THEN "yellow" ELSE "muted"

EntryRows ==
    { ("ADR%" :> a) @@ ("Rx21E" :> b) @@ ("E21L%" :> c) @@ ("Rx50S" :> d) @@ alt :
        a \in {Null, Txt, Num(24), Num(25), Num(70), Num(71)},
        b \in {Null, Num(-4), Num(-3), Num(8), Num(9)},
        c \in {Null, Txt, Num(40), Num(41)},
        d \in {Null, Num(25), Num(26)},
        alt \in {EmptyMap, ("ADR%(20D)" :> Num(30)), ("ATR_50SMA" :> Num(99))} }

DupCounts == 1..3

InitEntry ==
    /\ pc = "ready"
    /\ arg \in [row : EntryRows, dupCount : DupCounts]
    /\ ret = Null
    /\ IdleExcept({"func"})

\* the part of renderScreenTable's row loop that scores a row
EntryScore ==
    /\ pc = "ready"
    /\ ret' = [score |-> entryScore(arg.row),
               background |-> rowBackground(arg.dupCount, entryScore(arg.row)),
               badge |-> scoreBadge(entryScore(arg.row))]
    /\ pc' = "done"
    /\ UNCHANGED arg
    /\ UNCHANGED othersOfFunc

NextEntry == EntryScore

SpecEntry == InitEntry /\ [][NextEntry]_vars

----------------------------------------------------------------------------
(* Short date labels of the breadth charts: formatDateLabel (market.js)    *)

\* the value of a decimal digit character
digitValue(c) == CHOOSE n \in 0..9 : DigitChars[n + 1] = c

\* parseInt(str) for text that starts with a digit: the value of the leading
\* run of digits, whatever follows it
RECURSIVE parseIntFrom(_, _)
parseIntFrom(str, acc) ==
    IF str # <<>> /\ IsDigit(Head(str))
    THEN parseIntFrom(Tail(str), acc * 10 + digitValue(Head(str)))
    ELSE acc

parseInt(str) == parseIntFrom(str, 0)

\* String.prototype.split with a one-character separator
RECURSIVE split(_, _)
split(str, sep) ==
    IF \A i \in 1..Len(str) : str[i] # sep THEN <<str>>
    ELSE LET k == CHOOSE i \in 1..Len(str) :
                      str[i] = sep /\ \A j \in 1..(i - 1) : str[j] # sep
         IN <<SubSeq(str, 1, k - 1)>> \o split(SubSeq(str, k + 1, Len(str)), sep)

\* n digits stand in str from position from on
digitRun(str, from, n) ==
    /\ Len(str) >= from + n - 1
    /\ \A i \in from..(from + n - 1) : IsDigit(str[i])

\* /^\d{5}$/
isSerialLabel(s) == Len(s) = 5 /\ digitRun(s, 1, 5)

\* /^\d{4}-\d{1,2}-\d{1,2}/
isYmdPrefixed(s) ==
    \E a \in 1..2, b \in 1..2 :
        /\ Len(s) >= 6 + a + b
        /\ digitRun(s, 1, 4)
        /\ s[5] = "-"
        /\ digitRun(s, 6, a)
        /\ s[6 + a] = "-"
        /\ digitRun(s, 7 + a, b)

\* /^\d{1,2}\/\d{1,2}\/\d{2,4}/
isMdyPrefixed(s) ==
    \E a \in 1..2, b \in 1..2 :
        /\ Len(s) >= a + b + 4
        /\ digitRun(s, 1, a)
        /\ s[a + 1] = "/"
        /\ digitRun(s, a + 2, b)
        /\ s[a + b + 2] = "/"
        /\ digitRun(s, a + b + 3, 2)

\* /^\d{1,2}\/\d{1,2}$/
isShortLabel(s) ==
    \E a \in 1..2, b \in 1..2 :
        /\ Len(s) = a + b + 1
        /\ digitRun(s, 1, a)
        /\ s[a + 1] = "/"
        /\ digitRun(s, a + 2, b)

\* `${m}/${d}`
monthSlashDay(m, d) == Digits(m) \o <<"/">> \o Digits(d)

\* mutant: the serial is counted from 1900-01-01
utcMonthDayFrom1900(serial) ==
    LET z == serial - 25567 + 719468
        doe == z % 146097
        yoe == (doe - (doe \div 1460) + (doe \div 36524) - (doe \div 146096)) \div 365
        doy == doe - (365 * yoe + (yoe \div 4) - (yoe \div 100))
        mp == (5 * doy + 2) \div 153
    IN [month |-> IF mp < 10 THEN mp + 3 ELSE mp - 9,
        day |-> doy - ((153 * mp + 2) \div 5) + 1]

\* new Date(Date.UTC(1899, 11, 30 + serial)), read with getUTCMonth() + 1 and
\* getUTCDate(): Date.UTC carries the day count over months and years, so
\* the date is day serial - 25569 of the epoch of 1970-01-01; the month and
\* the day of that day number in the proleptic Gregorian calendar (the
\* count is taken from 0000-03-01, 719468 days before the epoch, in
\* 400-year cycles of 146097 days)
utcMonthDay(serial) ==
    LET z == serial - 25569 + 719468
        doe == z % 146097
        yoe == (doe - (doe \div 1460) + (doe \div 36524) - (doe \div 146096)) \div 365
        doy == doe - (365 * yoe + (yoe \div 4) - (yoe \div 100))
        mp == (5 * doy + 2) \div 153
    IN [month |-> IF mp < 10 THEN mp + 3 ELSE mp - 9,
        day |-> doy - ((153 * mp + 2) \div 5) + 1]

\* the browser's time zone: local midnight falls before ("west") or at or
\* after ("east") midnight UTC
Zones == {"west", "east"}

\* new Date(s) with getMonth() + 1 and getDate(), for text none of the four
\* patterns matched. A four-digit year is a date-only form: midnight UTC of
\* 1 January, which is still 31 December west of Greenwich. The other texts
\* of InputTexts that get here (no digit at all, or a day above 31) give an
\* Invalid Date
parseDate(s, zone) ==
    IF Len(s) = 4 /\ digitRun(s, 1, 4)
    THEN [valid |-> TRUE,
          month |-> IF zone = "west" THEN 12 ELSE 1,
          day |-> IF zone = "west" THEN 31 ELSE 1]
    ELSE [valid |-> FALSE, month |-> 0, day |-> 0]

\* formatDateLabel(d): d is a cell's text, or nullish (null, undefined, 0)
formatDateLabel(d, zone) ==
    IF d.nullish \/ d.s = <<>> THEN <<>>
    ELSE LET s == Trim(d.s) IN
         IF isSerialLabel(s)
         THEN LET date == utcMonthDay(parseInt(s))
              IN monthSlashDay(date.month, date.day)
         ELSE IF isYmdPrefixed(s)
         THEN LET parts == split(s, "-")
              IN monthSlashDay(parseInt(parts[2]), parseInt(parts[3]))
         ELSE IF isMdyPrefixed(s)
         THEN LET parts == split(s, "/")
              IN monthSlashDay(parseInt(parts[1]), parseInt(parts[2]))
         ELSE IF isShortLabel(s) THEN s
         ELSE LET date == parseDate(s, zone) IN
              IF date.valid THEN monthSlashDay(date.month, date.day) ELSE s

\* a label read back as a cell
AsCell(s) == [nullish |-> FALSE, s |-> s]

\* five-digit text of a serial number
RECURSIVE PadTo(_, _)
PadTo(str, n) == IF Len(str) >= n THEN str ELSE PadTo(<<"0">> \o str, n)

\* serial numbers: the epoch and the days around it, the first leap day, a
\* year and more of recent days (2025-12-09 to 2027-03-19), the largest
SerialCells == {0, 1, 2, 61, 62, 45351, 45352, 99999} \cup 46000..46430

MonthTexts == {<<"3">>, <<"0", "3">>, <<"1", "2">>}
DayTexts == {<<"7">>, <<"0", "7">>, <<"3", "1">>}
YearTexts == {<<"2", "4">>, <<"2", "0", "2", "4">>}
TailTexts == {<<>>, <<"T", "0", "9", ":", "0", "0">>, <<SP, "x">>}

YmdTexts ==
    {<<"2", "0", "2", "4", "-">> \o m \o <<"-">> \o d \o t :
        m \in MonthTexts, d \in DayTexts \cup {<<"7", "8", "9">>}, t \in TailTexts}

MdyTexts ==
    {m \o <<"/">> \o d \o <<"/">> \o y \o t :
        m \in MonthTexts, d \in DayTexts, y \in YearTexts, t \in TailTexts}

ShortTexts == {m \o <<"/">> \o d : m \in MonthTexts, d \in DayTexts}

OtherTexts ==
    {<<"a", "b", "c">>, <<"n", "/", "a">>, <<"-">>, <<"2", "0", "2", "4">>,
     <<"3", "/", "7", "8", "9">>, <<"1", "2", "/", "1", "0", "0">>}

Paddings == {<<>>, <<SP>>}

InputTexts ==
    LET cores == {PadTo(Digits(n), 5) : n \in SerialCells} \cup YmdTexts
                     \cup MdyTexts \cup ShortTexts \cup OtherTexts
    IN {<<>>} \cup {l \o c \o r : l \in Paddings, c \in cores, r \in Paddings}

InitDate ==
    /\ pc = "ready"
    /\ arg \in {[nullish |-> TRUE, s |-> <<>>]} \cup {AsCell(s) : s \in InputTexts}
    /\ ret = Null
    /\ IdleExcept({"func"})

\* labels.map(d => formatDateLabel(d)), and the label formatted once more
FormatDateLabel ==
    /\ pc = "ready"
    /\ \E zone \in Zones :
           LET once == formatDateLabel(arg, zone)
           IN ret' = [once |-> once,
                      twice |-> formatDateLabel(AsCell(once), zone)]
    /\ pc' = "done"
    /\ UNCHANGED arg
    /\ UNCHANGED othersOfFunc

NextDate == FormatDateLabel

SpecDate == InitDate /\ [][NextDate]_vars

----------------------------------------------------------------------------
(* sheets.js: fetchSheet and fetchSheetRaw on one response; the repository *)
(* holds a second sheets.js whose fetchSheet parses whatever it receives   *)

\* String.prototype.trimStart
trimStart(str) == TrimLeft(str)

\* text.trimStart().startsWith('<')
looksLikeHtml(txt) == trimStart(txt) # <<>> /\ Head(trimStart(txt)) = "<"

\* what a call settles with: an Error naming the sheet, or a value
Thrown(kind, sheetName) ==
    [threw |-> TRUE, error |-> [kind |-> kind, sheet |-> sheetName],
     parsed |-> FALSE, rows |-> <<>>, raw |-> <<>>]

Returned(parsed, rows, raw) ==
    [threw |-> FALSE, error |-> [kind |-> "", sheet |-> ""],
     parsed |-> parsed, rows |-> rows, raw |-> raw]

\* fetchSheet (sheets.js, lines 116-131)
fetchSheet(sheetName, resp) ==
    IF ~resp.ok THEN Thrown("status", sheetName)
    ELSE IF looksLikeHtml(resp.text) THEN Thrown("html", sheetName)
    ELSE IF Trim(resp.text) = <<>> THEN Returned(FALSE, <<>>, <<>>)
    ELSE Returned(TRUE, parseCsv(resp.text).result, <<>>)

\* fetchSheetRaw (sheets.js, lines 153-164): the text, BOM stripped
fetchSheetRaw(sheetName, resp) ==
    IF ~resp.ok THEN Thrown("status", sheetName)
    ELSE LET txt == IF resp.text # <<>> /\ Head(resp.text) = BOM
                    THEN Tail(resp.text) ELSE resp.text
         IN  IF looksLikeHtml(txt) THEN Thrown("html", sheetName)
             ELSE Returned(FALSE, <<>>, txt)

\* !isNaN(parseFloat(str)) for trimmed, non-empty text: an optional sign,
\* then a digit, or a point and a digit
parseFloatReads(str) ==
    LET body == IF str[1] \in {"+", "-"} THEN Tail(str) ELSE str
    IN  /\ body # <<>>
        /\ \/ IsDigit(body[1])
           \/ body[1] = "." /\ Len(body) >= 2 /\ IsDigit(body[2])

\* the second sheets.js, lines 104-114: no serial-date rule, parseFloat
typedCellParseFloat(h, v) ==
    LET trimmed == Trim(v)
    IN  IF trimmed = <<>> THEN [t |-> "null", s |-> <<>>]
        ELSE IF MatchesYmd(trimmed) \/ MatchesMdy(trimmed)
        THEN [t |-> "string", s |-> trimmed]
        ELSE IF parseFloatReads(trimmed) THEN [t |-> "number", s |-> trimmed]
        ELSE [t |-> "string", s |-> trimmed]

RECURSIVE buildObjParseFloatFrom(_, _, _, _)
buildObjParseFloatFrom(uh, values, idx, obj) ==
    IF idx > Len(uh) THEN obj
    ELSE LET v == IF idx <= Len(values) THEN values[idx] ELSE <<>>
         IN  buildObjParseFloatFrom(uh, values, idx + 1,
                 (Trim(uh[idx]) :> typedCellParseFloat(uh[idx], v)) @@ obj)

RECURSIVE buildRowsParseFloatFrom(_, _, _, _)
buildRowsParseFloatFrom(uh, rows, i, acc) ==
    IF i > Len(rows) THEN acc
    ELSE IF \A k \in 1..Len(rows[i]) : Trim(rows[i][k]) = <<>>
    THEN buildRowsParseFloatFrom(uh, rows, i + 1, acc)
    ELSE buildRowsParseFloatFrom(uh, rows, i + 1,
             Append(acc, buildObjParseFloatFrom(uh, rows[i], 1, EmptyMap)))

\* parseCsv of the second sheets.js (lines 34-120): the same tokenizer and
\* header pass, no BOM strip
parseCsvSecond(txt) ==
    LET lines == parseCsvLinesFrom(txt, 1, <<>>, FALSE, <<>>)
        rows == [k \in 1..Len(lines) |-> splitRow(lines[k])]
    IN  IF lines = <<>> THEN <<>>
        ELSE buildRowsParseFloatFrom(uniqueHeadersOf(rows[1]), rows, 2, <<>>)

\* fetchSheet of the second sheets.js (lines 125-131)
fetchSheetSecond(sheetName, resp) ==
    IF ~resp.ok THEN Thrown("status", sheetName)
    ELSE Returned(TRUE, parseCsvSecond(resp.text), <<>>)

\* response bodies: blank ones, HTML pages (bare, after white space, after
\* a BOM), CSV (bare, after a BOM, with '<' inside a field)
ResponseTexts ==
    {<<>>, <<SP>>, <<NL, SP, NL>>, <<BOM>>,
     <<"<", "p", ">">>, <<"<", "p", ">", NL, "<", "b", ">">>,
     <<SP, NL, "<", "p", ">", NL, "x">>, <<BOM, "<", "p", ">", NL, "x">>,
     <<"h", COMMA, "k", NL, "1", COMMA, "y">>,
     <<BOM, "h", NL, "1">>, <<"h", NL, "a", "<", "b">>,
     <<"h", NL, SP, NL, "2">>}

FetchedSheets == {"Sectors", "Portfolio"}

InitFetch ==
    /\ pc = "ready"
    /\ arg \in [sheetName : FetchedSheets, ok : BOOLEAN, text : ResponseTexts]
    /\ ret = Null
    /\ IdleExcept({"func"})

FetchReturns(settled, fn) ==
    /\ pc = "ready"
    /\ ret' = [fn |-> fn, settled |-> settled]
    /\ pc' = "done"
    /\ UNCHANGED arg
    /\ UNCHANGED othersOfFunc

FetchSheet == FetchReturns(fetchSheet(arg.sheetName, arg), "fetchSheet")

FetchSheetRaw == FetchReturns(fetchSheetRaw(arg.sheetName, arg), "fetchSheetRaw")

FetchSheetSecond ==
    FetchReturns(fetchSheetSecond(arg.sheetName, arg), "fetchSheet (second)")

NextFetch == FetchSheet \/ FetchSheetRaw \/ FetchSheetSecond

SpecFetch == InitFetch /\ [][NextFetch]_vars

----------------------------------------------------------------------------
(* portfolio.js: parsePortfolioSections (lines 70-114).  The model writes  *)
(* the marker glyph as "#", the ideographic space as "~" and the five      *)
(* Japanese labels of SECTION_MAP as two-letter codes.                     *)

MARK == "#"
IDSP == "~"

SECTION_MAP ==
    << [jp |-> <<"R", "K">>, key |-> "risk"],
       [jp |-> <<"E", "N">>, key |-> "entry"],
       [jp |-> <<"P", "O">>, key |-> "positions"],
       [jp |-> <<"H", "I">>, key |-> "history"],
       [jp |-> <<"S", "T">>, key |-> "stats"] >>

\* String.prototype.includes
includes(str, sub) ==
    \E i \in 0..(Len(str) - Len(sub)) :
        \A k \in 1..Len(sub) : str[i + k] = sub[k]

\* first.replace(/[\s　]/g, '')
RECURSIVE stripSpaces(_)
stripSpaces(str) ==
    IF str = <<>> THEN <<>>
    ELSE IF IsSpace(Head(str)) \/ Head(str) = IDSP THEN stripSpaces(Tail(str))
    ELSE <<Head(str)>> \o stripSpaces(Tail(str))

\* Object.entries(SECTION_MAP).find(([jp]) => normalized.includes(jp)):
\* the key of the first label contained, "" when none is (null)
matchedKey(normalized) ==
    LET hits == {i \in 1..Len(SECTION_MAP) : includes(normalized, SECTION_MAP[i].jp)}
    IN  IF hits = {} THEN ""
        ELSE SECTION_MAP[CHOOSE i \in hits : \A j \in hits : i <= j].key

\* (fields[0] || '').trim()
firstField(fields) == Trim(fields[1])

\* a stored row: null for a fully blank line, else the trimmed fields
NullRow == [null |-> TRUE, fields |-> <<>>]
KeptRow(fields) ==
    [null |-> FALSE, fields |-> [k \in 1..Len(fields) |-> Trim(fields[k])]]

\* flush(): st = [sections, currentKey, rows]
flush(st) ==
    [sections |-> IF st.currentKey # ""
                  THEN (st.currentKey :> st.rows) @@ st.sections
                  ELSE st.sections,
     currentKey |-> st.currentKey, rows |-> <<>>]

\* mutant: a fully blank row inside a section is skipped
sectionStepDropBlank(st, line) ==
    LET fields == splitRow(line)
        first == firstField(fields)
    IN  IF first # <<>> /\ Head(first) = MARK
        THEN [flush(st) EXCEPT !.currentKey = matchedKey(stripSpaces(first))]
        ELSE IF st.currentKey = "" THEN st
        ELSE IF \A k \in 1..Len(fields) : Trim(fields[k]) = <<>> THEN st
        ELSE [st EXCEPT !.rows = Append(st.rows, KeptRow(fields))]

\* one turn of the loop of lines 89-111
sectionStep(st, line) ==
    LET fields == splitRow(line)
        first == firstField(fields)
    IN  IF first # <<>> /\ Head(first) = MARK
        THEN [flush(st) EXCEPT !.currentKey = matchedKey(stripSpaces(first))]
        ELSE IF st.currentKey = "" THEN st
        ELSE IF \A k \in 1..Len(fields) : Trim(fields[k]) = <<>>
        THEN [st EXCEPT !.rows = Append(st.rows, NullRow)]
        ELSE [st EXCEPT !.rows = Append(st.rows, KeptRow(fields))]

RECURSIVE sectionsFrom(_, _, _)
sectionsFrom(lines, i, st) ==
    IF i > Len(lines) THEN flush(st).sections
    ELSE sectionsFrom(lines, i + 1, sectionStep(st, lines[i]))

parsePortfolioSections(csvText) ==
    sectionsFrom(splitCsvLines(csvText), 1,
                 [sections |-> EmptyMap, currentKey |-> "", rows |-> <<>>])

\* lines of a portfolio sheet: markers (known, known with spaces inside and
\* before, unknown), rows, blank lines
MaxSectionLines == 4

SheetLines ==
    { <<MARK, "R", "K">>, <<SP, MARK, IDSP, "S", SP, "T", COMMA, "x">>,
      <<MARK, "Z">>, <<"a", COMMA, SP, "b">>, <<"c">>, <<>>,
      <<COMMA, SP, COMMA>>, <<"x", MARK, "R", "K">> }

RECURSIVE JoinLines(_)
JoinLines(lines) ==
    IF lines = <<>> THEN <<>>
    ELSE IF Len(lines) = 1 THEN Head(lines)
    ELSE Head(lines) \o <<NL>> \o JoinLines(Tail(lines))

InitSections ==
    /\ pc = "ready"
    /\ \E lines \in SeqsUpTo(SheetLines, MaxSectionLines), lastBreak \in BOOLEAN :
           arg = [csvText |-> JoinLines(lines)
                                 \o (IF lastBreak THEN <<NL>> ELSE <<>>)]
    /\ ret = Null
    /\ IdleExcept({"func"})

ParsePortfolioSections ==
    /\ pc = "ready"
    /\ ret' = [sections |-> parsePortfolioSections(arg.csvText)]
    /\ pc' = "done"
    /\ UNCHANGED arg
    /\ UNCHANGED othersOfFunc

NextSections == ParsePortfolioSections

SpecSections == InitSections /\ [][NextSections]_vars

----------------------------------------------------------------------------
(* Claims about the exposure scorer (SpecExposure) *)

CompPts(i) == exposure.components[i].pts
CompMax(i) == exposure.components[i].max
OtherFive == CompPts(2) + CompPts(3) + CompPts(4) + CompPts(5) + CompPts(6)

\* C1: whenever the returned killSwitch is true, score is exactly 0 and the
\* label is RISK OFF, whatever the other five components add up to; raw
\* still reports the sum of the six components.
C1_KillSwitchForcesZero ==
    (pc = "done" /\ exposure.killSwitch) =>
        /\ exposure.score = 0
        /\ exposure.label = "RISK OFF"
        /\ exposure.raw = CompPts(1) + OtherFive

\* C1 witness: the kill-switch fired although the other five factors sum
\* above 60 points.
C1_Witness ==
    /\ pc = "done"
    /\ exposure.killSwitch
    /\ OtherFive > 600
    /\ exposure.raw > 600
    /\ exposure.score = 0

\* C2: killSwitch is true iff the Index x 21EMA component is exactly 0, and
\* that is the case iff every index row carries a 21-EMA distance <= -band
\* (vacuously for an empty index list); one row classified above or inside
\* (a missing distance counts as inside) makes the component non-zero.
C2_KillSwitchIffAllBelow ==
    pc = "done" =>
        /\ exposure.killSwitch <=> (CompPts(1) = 0)
        /\ exposure.killSwitch <=>
              \A i \in 1..Len(indices) :
                  indices[i].d21.t = "num" /\ indices[i].d21.v <= -insideBand

\* C2 witness: a non-empty index list whose rows are all at or under -band.
C2_Witness ==
    /\ pc = "done"
    /\ exposure.killSwitch
    /\ Len(indices) >= 2
    /\ \E i \in 1..Len(indices) : indices[i].d21.v = -insideBand

\* C3 (as claimed): each of the six components has 0 <= points <= maxPoints
\* for any number of index rows, and the six maxPoints sum to 100.
C3_ComponentsWithinMax ==
    pc = "done" =>
        /\ \A i \in 1..6 : 0 <= CompPts(i) /\ CompPts(i) <= CompMax(i)
        /\ CompMax(1) + CompMax(2) + CompMax(3) + CompMax(4) + CompMax(5)
             + CompMax(6) = 1000

BandLabel(score) ==
    CASE score >= 800 -> "AGGRESSIVE"
      [] score >= 600 /\ score < 800 -> "BULLISH"
      [] score >= 400 /\ score < 600 -> "CAUTIOUS"
      [] score >= 200 /\ score < 400 -> "DEFENSIVE"
      [] OTHER -> "RISK OFF"

\* C4: the displayed score lies in [0, 100]; it is 0 when killSwitch is set
\* and min(100, raw) otherwise; the label is the band containing the score.
C4_ScoreClampedAndLabelled ==
    pc = "done" =>
        /\ 0 <= exposure.score /\ exposure.score <= 1000
        /\ exposure.killSwitch => exposure.score = 0
        /\ ~exposure.killSwitch =>
              exposure.score = Min(1000, CompPts(1) + OtherFive)
        /\ exposure.label = BandLabel(exposure.score)

\* C4 witness: the raw sum exceeds 100 and the displayed score is clamped.
C4_Witness ==
    /\ pc = "done"
    /\ ~exposure.killSwitch
    /\ exposure.raw > 1000
    /\ exposure.score = 1000
    /\ exposure.label = "AGGRESSIVE"

----------------------------------------------------------------------------
(* Claims about the phase classifier (SpecPhase) *)

\* the decision order of the claim, applied to actual values
PhaseByRule(rs, er) ==
    IF rs >= 50 /\ er > 0 THEN 4
    ELSE IF er > 0 /\ rs >= 30 THEN 3
    ELSE IF er <= 0 /\ rs >= 30 THEN 2
    ELSE 1

\* C5 (as claimed): whenever RS is present and finite its actual value is
\* used (50 only when missing or unparseable), likewise the revision (0 only
\* when missing), in the first-match order 4, 3, 2, 1; so (RS=0, rev=-1) is
\* phase 1.
C5_PhaseUsesActualValues ==
    pc = "done" =>
        \A i \in 1..Len(sectors) :
            Truthy(sectors[i].Sector) =>
                sectorPhase[i] =
                    PhaseByRule(
                        IF sectors[i].RS_21.t = "num" THEN sectors[i].RS_21.v ELSE 50,
                        IF sectors[i].ER_1W.t = "num" THEN sectors[i].ER_1W.v ELSE 0)

\* C6: derivePhase is total and deterministic: every named sector row gets
\* exactly one phase in 1..4, equal rows get equal phases, and each named
\* row is counted in exactly one bucket.
C6_PhaseTotal ==
    pc = "done" =>
        LET named == {i \in 1..Len(sectors) : Truthy(sectors[i].Sector)}
        IN  /\ \A i \in named : sectorPhase[i] \in 1..4
            /\ \A i, j \in named :
                  sectors[i] = sectors[j] => sectorPhase[i] = sectorPhase[j]
            /\ \A k \in 1..4 :
                  phaseCounts[k] = Cardinality({i \in named : sectorPhase[i] = k})
            /\ phaseCounts[1] + phaseCounts[2] + phaseCounts[3] + phaseCounts[4]
                  = Cardinality(named)

\* C6 witness: a named row whose RS is unparseable and whose revision is
\* missing has been classified and counted.
C6_Witness ==
    /\ pc = "done"
    /\ \E i \in 1..Len(sectors) :
          /\ Truthy(sectors[i].Sector)
          /\ sectors[i].RS_21.t = "txt"
          /\ sectors[i].ER_1W.t = "null"
          /\ sectorPhase[i] = 2
          /\ phaseCounts[2] >= 1

----------------------------------------------------------------------------
(* Claims about the CSV tokenizers (SpecCsv) *)

HasAllThree(str) ==
    \A c \in {COMMA, NL, QUOTE} : \E i \in 1..Len(str) : str[i] = c

\* C7 (as claimed): in both tokenizers, a field containing a comma, a
\* newline and a double quote, wrapped in quotes with its inner quote
\* doubled, comes back as exactly one field equal to the original value;
\* the neighbouring fields and the number of lines are unchanged.
C7_RoundTripBothTokenizers ==
    (pc = "done" /\ HasAllThree(field)) =>
        /\ Len(tokLines) = 2
        /\ tokRows[1] = << <<"h">>, <<"k">>, <<"m">> >>
        /\ tokRows[2] = <<LeftField, field, RightField>>

\* the same round trip, for the portfolio pair splitCsvLines / splitRow alone
\* and for every field value
C7_PortfolioRoundTrip ==
    (pc = "done" /\ tokenizer = "portfolio") =>
        /\ Len(tokLines) = 2
        /\ tokRows[1] = << <<"h">>, <<"k">>, <<"m">> >>
        /\ tokRows[2] = <<LeftField, field, RightField>>

----------------------------------------------------------------------------
(* Claims about the record builder (SpecSheet) *)

\* C8 (as claimed): for every header row the deduplicated keys are pairwise
\* distinct (also for A, A, A_2), so each Row has one key per header column
\* and each column's cell is found under its own key.
C8_KeysDistinct ==
    pc = "done" =>
        /\ \A i, j \in 1..Len(uniqueHeaders) :
              i # j => uniqueHeaders[i] # uniqueHeaders[j]
        /\ \A r \in 1..Len(result) :
              /\ Cardinality(DOMAIN result[r]) = Len(tokRows[1])
              /\ \A k \in 1..Len(tokRows[r + 1]) :
                    result[r][uniqueHeaders[k]].s = tokRows[r + 1][k]

----------------------------------------------------------------------------
(* Claims about the screener's ALL view (SpecScreener) *)

RECURSIVE Flatten(_)
Flatten(entries) ==
    IF entries = <<>> THEN <<>>
    ELSE Head(entries).rows \o Flatten(Tail(entries))

\* the rows of one ticker, in processing order (source order, then row order)
RowsOfTicker(id) ==
    SelectSeq(Flatten(screenData),
              LAMBDA r : stripFormula(r, "Ticker") = [some |-> TRUE, id |-> id])

SetMin(S) == CHOOSE m \in S : \A x \in S : m <= x

\* C10: in the ALL view a field of the merged record holds the value of the
\* first row of its ticker, in processing order, in which the field is
\* non-empty (later rows only fill fields that are still null/empty, and
\* never replace a non-empty value); a field that is empty in every row
\* keeps what the first row had.
C10_FirstSourceWins ==
    (pc = "done" /\ currentScreen = "ALL") =>
        \A d \in 1..Len(data) :
            LET rows == RowsOfTicker(stripFormula(data[d], "Ticker").id)
            IN  \A key \in {"Ticker", "X", "Y"} :
                    LET filled == {i \in 1..Len(rows) : ~IsBlank(rows[i], key)}
                    IN  IF filled # {}
                        THEN /\ key \in DOMAIN data[d]
                             /\ data[d][key] = rows[SetMin(filled)][key]
                        ELSE IF key \in DOMAIN rows[1]
                        THEN /\ key \in DOMAIN data[d]
                             /\ data[d][key] = rows[1][key]
                        ELSE key \notin DOMAIN data[d]

\* C10 witness: source A has ticker 1234 with X = null, Y = 5, source B has
\* it with X = 9, Y = 1, and the merged record has X = 9, Y = 5.
C10_Witness ==
    /\ pc = "done"
    /\ currentScreen = "ALL"
    /\ screenData[1].rows = <<ScreenRow(Num(1234), Null, Num(5))>>
    /\ screenData[2].rows = <<ScreenRow(Formula(1234), Num(9), Num(1))>>
    /\ screenData[3].rows = <<>>
    /\ Len(data) = 1
    /\ data[1]["X"] = Num(9)
    /\ data[1]["Y"] = Num(5)

----------------------------------------------------------------------------
(* Claims about the refresh cycle (SpecLoad) *)

\* the entries of res listed in the order the sheets were requested
InRequestOrder(res) ==
    LET present == SelectSeq(sheetNames,
                        LAMBDA n : \E i \in 1..Len(res) : res[i].key = n)
    IN  [k \in 1..Len(present) |->
            res[CHOOSE i \in 1..Len(res) : res[i].key = present[k]]]

\* a table row without the _screenKey tag
Untagged(r) == [key \in DOMAIN r \ {"_screenKey"} |-> r[key]]

\* C11: for the same fetched contents every order of fetch completions
\* gives the same reconciliation: once a cycle has rendered the screener,
\* the overlap entry of every ticker (representative name and sector,
\* source list in order) and its merged record are those obtained by
\* processing the sources in the order they were requested.
C11_CompletionOrderIrrelevant ==
    (pc = "idle" /\ "screener" \in rendered) =>
        LET fixed == screenDataOf(InRequestOrder(results))
            fixedMap == buildTickerMap(fixed)
            fixedData == renderScreenTableData(fixed, "ALL")
        IN  /\ DOMAIN tickerMap = DOMAIN fixedMap
            /\ \A id \in DOMAIN tickerMap :
                  /\ tickerMap[id].name = fixedMap[id].name
                  /\ tickerMap[id].sector = fixedMap[id].sector
                  /\ tickerMap[id].screens = fixedMap[id].screens
            /\ {Untagged(data[i]) : i \in 1..Len(data)} =
               {Untagged(fixedData[i]) : i \in 1..Len(fixedData)}

----------------------------------------------------------------------------
(* Claims about the cross-screen overlap map (SpecTickerMap) *)

\* the ticker identities that occur in the source with number k
TickersOfSource(k) ==
    {stripFormula(screenData[k].rows[i], "Ticker").id :
        i \in {j \in 1..Len(screenData[k].rows) :
                  stripFormula(screenData[k].rows[j], "Ticker").some}}

\* the keys of the sources in which ticker id occurs
SourcesOfTicker(id) ==
    {screenData[k].key : k \in {j \in 1..Len(screenData) :
                                   id \in TickersOfSource(j)}}

----------------------------------------------------------------------------
(* Claims about the refresh guard and the fetches (SpecLoad) *)

\* C13: single-flight refresh: at most one fetch-and-render cycle is in
\* flight at any time, the busy flag is set exactly while one is, and a
\* call of loadData (initial load, refresh button, mobile refresh) made
\* while the flag is set starts no fetch and changes no state.
C13_SingleFlight ==
    /\ [](inFlight <= 1 /\ (isLoading <=> inFlight = 1))
    /\ [][(calls' # calls /\ isLoading) =>
              UNCHANGED <<pc, isLoading, inFlight, served, pending, failed,
                          results, rendered, threw, lastUpdated,
                          screenerVars, tableVars>>]_vars

\* C13 witness: the second call arrived while the first cycle was
\* fetching, and that cycle is still the only one
C13_Witness ==
    /\ calls = 2
    /\ isLoading
    /\ inFlight = 1
    /\ pc = "fetching"
    /\ lastUpdated = 0
    /\ Len(results) = 2

\* the position of name's entry in the results object
EntryOf(name) == CHOOSE i \in 1..Len(results) : results[i].key = name

\* C14: per-source fetch isolation: every entry fetchSheets has written is
\* the empty table when that source's fetch threw and otherwise exactly
\* the table that source's own fetch parsed; and when all fetches have
\* settled the result has exactly one entry for every requested name,
\* whatever subset failed and in whatever order they settled.
C14_FetchIsolation ==
    /\ \A i \in 1..Len(results) :
          /\ results[i].rows = IF results[i].key \in failed THEN <<>>
                               ELSE served[results[i].key]
          /\ \A j \in 1..Len(results) : results[j].key = results[i].key => j = i
    /\ (calls > 0 /\ pending = {}) =>
          {results[i].key : i \in 1..Len(results)} =
              {sheetNames[i] : i \in 1..Len(sheetNames)}

\* C14 witness: Sectors and St_21EMA failed, St_Momentum settled last and
\* still holds its own non-empty table
C14_Witness ==
    /\ pc = "fetching"
    /\ pending = {}
    /\ failed = {"Sectors", "St_21EMA"}
    /\ served["St_21EMA"] # <<>>
    /\ results[4].key = "St_Momentum"
    /\ results[4].rows = served["St_Momentum"]
    /\ results[4].rows # <<>>
    /\ results[EntryOf("St_21EMA")].rows = <<>>

\* C15: view isolation: in the step that ends a cycle every one of the
\* three views is attempted (it has rendered or its exception was caught),
\* whatever subset of them throws and nothing outside their blocks does; a screener that does not throw is
\* initialised with the screener tables of this cycle's data; the timestamp
\* is updated and the busy flag cleared.
C15_ViewIsolation ==
    [][(pc = "fetching" /\ pc' = "idle"
          /\ threw' \subseteq {Views[i] : i \in 1..Len(Views)}) =>
          /\ rendered' \cup threw' = {Views[i] : i \in 1..Len(Views)}
          /\ rendered' \cap threw' = {}
          /\ "screener" \in rendered' => screenData' = screenDataOf(results)
          /\ lastUpdated' = lastUpdated + 1
          /\ isLoading' = FALSE
          /\ inFlight' = 0]_vars

\* C15 witness: the Market view threw, the Sector and Screener views
\* rendered, the screener holds a ticker, and the cycle finished
C15_Witness ==
    /\ pc = "idle"
    /\ threw = {"market"}
    /\ rendered = {"sector", "screener"}
    /\ DOMAIN tickerMap = {1234, 5678}
    /\ lastUpdated = 1
    /\ ~isLoading

----------------------------------------------------------------------------
(* Claims about the screener table (SpecTable) *)

\* C16: numeric column sort is NaN-last in both directions: while a header
\* sort on the numeric column RS21 is active, no record whose value is
\* missing or non-numeric stands before a record that has a number, and the
\* numbers are in ascending order for asc and descending order for desc.
C16_NaNLastBothDirections ==
    (pc = "done" /\ headerSort.col = "RS21") =>
        \A i, j \in 1..Len(data) :
            i < j =>
                LET a == parseFloatCell(data[i], "RS21")
                    b == parseFloatCell(data[j], "RS21")
                IN  /\ ~(a.nan /\ ~b.nan)
                    /\ (~a.nan /\ ~b.nan) =>
                          IF headerSort.dir = "asc" THEN a.v <= b.v
                          ELSE a.v >= b.v

\* C16 witness: the values 3, null, 1 of one screen sorted descending
\* give 3, 1, null
C16_Witness ==
    /\ pc = "done"
    /\ currentScreen = "St_Momentum"
    /\ headerSort = [col |-> "RS21", dir |-> "desc"]
    /\ screenData[1].rows = <<TableRow(Num(1234), Text(1), Num(3)),
                              TableRow(Formula(1234), Text(2), Null),
                              TableRow(Num(5678), Text(3), Num(1))>>
    /\ data = <<TableRow(Num(1234), Text(1), Num(3)),
                TableRow(Num(5678), Text(3), Num(1)),
                TableRow(Formula(1234), Text(2), Null)>>

\* the key a header sort on col orders a row by, as [nan, v]
HeaderKey(r, col) ==
    IF col = "Ticker"
    THEN [nan |-> FALSE, v |-> textKey(stripFormula(r, "Ticker"))]
    ELSE IF col = "Screens"
    THEN [nan |-> FALSE, v |-> screensCount(tickerMap, r)]
    ELSE parseFloatCell(r, col)

\* seq is a rearrangement of base
IsPermutationOf(seq, base) ==
    /\ Len(seq) = Len(base)
    /\ \E p \in [1..Len(base) -> 1..Len(base)] :
          /\ \A a, b \in 1..Len(base) : p[a] = p[b] => a = b
          /\ \A k \in 1..Len(base) : seq[k] = base[p[k]]

\* C17: header-sort state machine: a click on the active sort column flips
\* its direction between desc and asc (the handler applied to the active
\* column yields the other direction); a click on any other column makes it the active column with
\* direction desc; and while a header sort is active the table holds the
\* rows of the current view ordered by that column and direction
\* (records without a number last), the dropdown being back at 'default'.
C17_HeaderSortStateMachine ==
    /\ []((pc = "done" /\ headerSort.col # "") =>
            /\ headerSort.dir \in {"asc", "desc"}
            /\ sortSelect = "default"
            /\ clickHeader(headerSort, headerSort.col) =
                   [col |-> headerSort.col,
                    dir |-> IF headerSort.dir = "desc" THEN "asc" ELSE "desc"]
            /\ IsPermutationOf(data, renderScreenTableData(screenData, currentScreen))
            /\ \A i, j \in 1..Len(data) :
                  i < j =>
                      LET a == HeaderKey(data[i], headerSort.col)
                          b == HeaderKey(data[j], headerSort.col)
                      IN  /\ ~(a.nan /\ ~b.nan)
                          /\ (~a.nan /\ ~b.nan) =>
                                IF headerSort.dir = "asc" THEN a.v <= b.v
                                ELSE a.v >= b.v)
    /\ [][(headerSort' # headerSort /\ headerSort'.col # "") =>
             IF headerSort'.col = headerSort.col
             THEN <<headerSort.dir, headerSort'.dir>> \in
                      {<<"desc", "asc">>, <<"asc", "desc">>}
             ELSE headerSort'.dir = "desc"]_vars

\* C17 witness: two clicks on Ticker give direction asc, and the ALL view
\* lists its three tickers in ascending order
C17_Witness ==
    /\ pc = "done"
    /\ currentScreen = "ALL"
    /\ headerSort = [col |-> "Ticker", dir |-> "asc"]
    /\ Len(data) = 3
    /\ Len(screenData[1].rows) = 3
    /\ screenData[1].rows[1]["Ticker"] = Num(9012)
    /\ data[1]["Ticker"] = Num(1234)
    /\ data[2]["Ticker"] = Num(5678)
    /\ data[3]["Ticker"] = Num(9012)

----------------------------------------------------------------------------
(* Claims about the entry score (SpecEntry) *)

\* 1 when cell c holds a number in [lo, hi] (tenths), else 0
CheckRange(c, lo, hi) == IF c.t = "num" /\ c.v >= lo /\ c.v <= hi THEN 1 ELSE 0

\* 1 when cell c holds a number that is at most hi (tenths), else 0
CheckAtMost(c, hi) == IF c.t = "num" /\ c.v <= hi THEN 1 ELSE 0

\* C18: entryScore(row) is the number of the four checks (ADR% in
\* [2.5, 7], Rx21E in [-0.3, 0.8], E21L% <= 4, Rx50S <= 2.5) whose metric
\* is present, numeric and in range: an integer in 0..4, each missing
\* metric failing only its own check; the entry-ready row highlight and
\* the green badge appear only with a score >= 3, and a score under 2 gets
\* neither highlight nor a coloured badge.
C18_EntryScoreCountsChecks ==
    pc = "done" =>
        LET r == arg.row
            n == CheckRange(Coalesce(r, <<"ADR%", "ADR%(20D)", "ADR">>), 25, 70)
               + CheckRange(Coalesce(r, <<"Rx21E", "ATR_21EMA", "ATR21E_R">>), -3, 8)
               + CheckAtMost(Coalesce(r, <<"E21L%", "Dist_21EMA%">>), 40)
               + CheckAtMost(Coalesce(r, <<"Rx50S", "ATR_50SMA", "ATR50S_R">>), 25)
        IN  /\ ret.score = n
            /\ ret.score \in 0..4
            /\ ret.background = "good-entry" => ret.score >= 3
            /\ ret.badge = "green" => ret.score >= 3
            /\ ret.score < 2 => (ret.background # "good-entry" /\ ret.badge = "muted")

\* C18 witness: ADR% is missing, the other three metrics are in range (two
\* of them on their limits): the score is 3 and the row is highlighted
C18_Witness ==
    /\ pc = "done"
    /\ arg.dupCount = 1
    /\ arg.row = ("ADR%" :> Null) @@ ("Rx21E" :> Num(8)) @@ ("E21L%" :> Num(40))
                   @@ ("Rx50S" :> Num(25))
    /\ ret.score = 3
    /\ ret.background = "good-entry"

----------------------------------------------------------------------------
(* Claims about the NH/NL factor (SpecNhNl) *)

\* C19: the NH/NL factor is monotone in the new-high count: for the fixed
\* new-low count of the call, every smaller new-high count a gives points
\* no greater than the points the call computed, across the rounded ratio,
\* the bonus steps at 50 and 100 and the clamp; and the points never exceed
\* the factor's weight.
C19_NhNlMonotone ==
    pc = "done" =>
        /\ \A a \in 0..breadth.newHigh :
              Score4(a, breadth.newLow) <= CompPts(4)
        /\ CompPts(4) <= W_nhNl * 10
        /\ CompPts(4) = Score4(breadth.newHigh, breadth.newLow)

\* C19 witness: 100 new highs against 100 new lows score 8.0 (ratio 5.0
\* plus the bonus 3), 99 against 100 score 7.0 (5.0 plus the bonus 2)
C19_Witness ==
    /\ pc = "done"
    /\ breadth.newHigh = 100
    /\ breadth.newLow = 100
    /\ CompPts(4) = 80
    /\ Score4(99, 100) = 70

----------------------------------------------------------------------------
(* Claims about the short date labels (SpecDate) *)

IsLeapYear(y) == (y % 4 = 0 /\ y % 100 # 0) \/ y % 400 = 0

\* the days of year y before the first of month m
DaysBeforeMonth(y, m) ==
    <<0, 31, 59, 90, 120, 151, 181, 212, 243, 273, 304, 334>>[m]
        + (IF m > 2 /\ IsLeapYear(y) THEN 1 ELSE 0)

\* the leap years before year y, counted from year 1
LeapYearsBefore(y) == ((y - 1) \div 4) - ((y - 1) \div 100) + ((y - 1) \div 400)

\* the days from 1899-12-30 to day d of month m of year y: 1900-01-01 is
\* day 2
DaysSinceSheetEpoch(y, m, d) ==
    2 + 365 * (y - 1900) + (LeapYearsBefore(y) - LeapYearsBefore(1900))
      + DaysBeforeMonth(y, m) + (d - 1)

\* the month and day n days after 1899-12-30, looked up in the calendar
SheetDate(n) ==
    LET y == CHOOSE yy \in 1899..2173 :
                 /\ DaysSinceSheetEpoch(yy, 1, 1) <= n
                 /\ n < DaysSinceSheetEpoch(yy + 1, 1, 1)
        m == CHOOSE mm \in 1..12 :
                 /\ DaysSinceSheetEpoch(y, mm, 1) <= n
                 /\ mm < 12 => n < DaysSinceSheetEpoch(y, mm + 1, 1)
    IN [month |-> m, day |-> n - DaysSinceSheetEpoch(y, m, 1) + 1]

\* none of the four patterns matches the trimmed text and generic date
\* parsing fails in every time zone
Unparseable(d) ==
    LET s == Trim(d.s) IN
    /\ ~d.nullish
    /\ ~isSerialLabel(s) /\ ~isYmdPrefixed(s)
    /\ ~isMdyPrefixed(s) /\ ~isShortLabel(s)
    /\ \A zone \in Zones : ~parseDate(s, zone).valid

\* the label is a fixed point; "2024-3-7" gives "3/7" and "3/7" itself; a
\* five-digit serial gives the month/day that many days after 1899-12-30
LabelIsStable ==
    /\ ret.twice = ret.once
    /\ arg.s = <<"2", "0", "2", "4", "-", "3", "-", "7">>
           => ret.once = <<"3", "/", "7">>
    /\ arg.s = <<"3", "/", "7">> => ret.once = <<"3", "/", "7">>
    /\ arg.s = <<"4", "6", "0", "6", "7">> => ret.once = <<"2", "/", "1", "4">>
    /\ (~arg.nullish /\ isSerialLabel(Trim(arg.s))) =>
           LET date == SheetDate(parseInt(Trim(arg.s)))
           IN ret.once = monthSlashDay(date.month, date.day)

\* C20 as stated: formatDateLabel is idempotent, f(f(d)) = f(d) for every
\* input; "2024-3-7" maps to "3/7" and "3/7" to itself; a 5-digit serial
\* maps to the month/day of 1899-12-30 UTC plus that many days, a fixed
\* point; unparseable input is returned unchanged
C20_UnparseableUnchanged ==
    pc = "done" =>
        /\ LabelIsStable
        /\ Unparseable(arg) => ret.once = arg.s

\* C20, amended: formatDateLabel is idempotent, with the same examples and
\* the same serial rule; unparseable input is returned with the white space
\* around it removed, and nullish or empty input gives the empty label
C20_IdempotentTrimmed ==
    pc = "done" =>
        /\ LabelIsStable
        /\ Unparseable(arg) => ret.once = Trim(arg.s)
        /\ (arg.nullish \/ arg.s = <<>>) => ret.once = <<>>

\* C20 witness: padded text that is no date came back trimmed, and a serial
\* became a label that stays as it is
C20_Witness ==
    /\ pc = "done"
    /\ \/ /\ arg.s = <<SP, "n", "/", "a", SP>>
          /\ ret.once = <<"n", "/", "a">>
          /\ ret.twice = ret.once
       \/ /\ arg.s = <<"4", "6", "0", "6", "7">>
          /\ ret.twice = <<"2", "/", "1", "4">>

----------------------------------------------------------------------------
(* Claims about fetching one sheet (SpecFetch) *)

\* C21: a response whose text begins with '<' after leading white space is
\* reported as an error naming the sheet and never reaches the CSV parser,
\* so no Row is built from it; an empty or white-space-only response gives
\* an empty Table (from fetchSheetRaw: blank text) and nothing is thrown
C21_HtmlNeverParsed ==
    (pc = "done" /\ arg.ok) =>
        /\ looksLikeHtml(arg.text) =>
               /\ ret.settled.threw
               /\ ret.settled.error.sheet = arg.sheetName
               /\ ~ret.settled.parsed
               /\ ret.settled.rows = <<>>
        /\ Trim(arg.text) = <<>> =>
               /\ ~ret.settled.threw
               /\ ret.settled.rows = <<>>
               /\ Trim(ret.settled.raw) = <<>>

----------------------------------------------------------------------------
(* Claims about the index position (SpecExposure) *)

\* the distance the claim classifies: missing or unparseable counts as 0
DistanceOrZero(c) == IF c.t = "num" THEN c.v ELSE 0

\* the position the claim gives to a distance
ClaimedPosition(c) ==
    IF DistanceOrZero(c) > insideBand THEN "above"
    ELSE IF DistanceOrZero(c) < -insideBand THEN "below" ELSE "inside"

\* the points of factor 1 when every row has its claimed position
ClaimedScore1 ==
    LET share(i) == IF ClaimedPosition(indices[i].d21) = "above" THEN perIdx1
                    ELSE IF ClaimedPosition(indices[i].d21) = "inside"
                    THEN halfIdx1 ELSE 0
    IN  RoundDiv(SumSeq([i \in 1..Len(indices) |-> share(i)]), 10)

\* C22: an index row is above iff d > +band, below iff d < -band, and
\* inside for -band <= d <= +band, both ends included; a missing or
\* unparseable distance counts as 0 and is inside (and factor 1 is scored
\* from these positions)
C22_BandEndsAreInside ==
    pc = "done" =>
        /\ \A i \in 1..Len(indices) :
               emaPos(indices[i]) = ClaimedPosition(indices[i].d21)
        /\ exposure.components[1].pts = ClaimedScore1

----------------------------------------------------------------------------
(* Claims about the advance/decline factor (SpecToraku) *)

\* the six buckets of the claim, each with its points
TorakuBuckets(t) ==
    { <<"extreme", t > 140, 0>>,
      <<"overheat", 120 < t /\ t <= 140, steps.overheat>>,
      <<"optimal", 100 <= t /\ t <= 120, W_toraku>>,
      <<"warm", 80 <= t /\ t < 100, steps.warm>>,
      <<"cool", 70 <= t /\ t < 80, steps.cool>>,
      <<"cold", t < 70, 2>> }

\* C23: every ratio t falls into exactly one bucket (t > 140 extreme, 0
\* points; 120 < t <= 140 overheat; 100 <= t <= 120 optimal, the full
\* weight; 80 <= t < 100 warm; 70 <= t < 80 cool; t < 70 cold, 2 points),
\* and a warning label is attached iff t > 120, "danger" iff t > 140
C23_SixBuckets ==
    pc = "done" =>
        LET t == breadth.toraku25
            c == exposure.components[3]
            hit == {b \in TorakuBuckets(t) : b[2]}
        IN  /\ Cardinality(hit) = 1
            /\ \A b \in hit : c.pts = b[3] * 10
            /\ steps.overheat < steps.optimal
            /\ (c.warningLabel # "none") <=> t > 120
            /\ (c.warningLabel = "danger") <=> t > 140
            /\ (c.warningLabel = "warning") <=> (120 < t /\ t <= 140)

\* C23 witness: a ratio of exactly 120 is still optimal and carries no label
C23_Witness ==
    /\ pc = "done"
    /\ breadth.toraku25 = 120
    /\ exposure.components[3].pts = exposure.components[3].max
    /\ exposure.components[3].warningLabel = "none"

----------------------------------------------------------------------------
(* Claims about cell typing (SpecCell) *)

\* the header and the typed cell of the first column of the only Row
CellHeader == uniqueHeaders[1]
TypedCell == result[1][CellHeader]

\* exactly five digits, nothing else
FiveDigits(str) == Len(str) = 5 /\ \A i \in 1..5 : IsDigit(str[i])

\* the value starts with YYYY-M-D or M/D/YYYY
DateLike(str) == MatchesYmd(str) \/ MatchesMdy(str)

\* C24: cell typing follows a fixed precedence: empty or white space only
\* gives null; else a value starting with YYYY-M-D or M/D/YYYY stays a
\* string; else exactly 5 digits under a header containing "date" (any
\* case) stays a string; else a number if numeric conversion succeeds,
\* otherwise the trimmed string. A date-like value is never a number, and
\* a 5-digit value is a number exactly when its header holds no "date"
C24_CellTypingPrecedence ==
    pc = "done" =>
        LET v == Trim(field)
            c == TypedCell
        IN  /\ Len(result) = 1
            /\ c.t = "null" <=> v = <<>>
            /\ c.t # "null" => c.s = v
            /\ (v # <<>> /\ DateLike(v)) => c.t = "string"
            /\ FiveDigits(v) =>
                   (c.t = "number" <=> ~ContainsDate(CellHeader))
            /\ (v # <<>> /\ ~DateLike(v) /\ ~FiveDigits(v)) =>
                   (c.t = "number" <=> IsNumberText(v))
            /\ v = <<"4", "5", "0", "0", "0">> =>
                   c.t = (IF CellHeader = <<"P", "r", "i", "c", "e">>
                             \/ CellHeader = <<"D", "a", "t">>
                          THEN "number" ELSE "string")
            /\ v \in {<<"1", "2", ".", "5">>, <<"-", "3">>, <<"4", "5", "0", "0">>}
                   => c.t = "number"
            /\ v \in {<<"a", "b">>, <<"3", "/", "7", "/", "2", "4">>,
                      <<"1", ".", "2", ".", "3">>} => c.t = "string"

\* C24 witness: 45000 was kept as text under "Update" (it contains "date")
\* and stored as a number under "Price"
C24_Witness ==
    /\ pc = "done"
    /\ Len(result) = 1
    /\ Trim(field) = <<"4", "5", "0", "0", "0">>
    /\ \/ CellHeader = <<"U", "p", "d", "a", "t", "e">> /\ TypedCell.t = "string"
       \/ CellHeader = <<"P", "r", "i", "c", "e">> /\ TypedCell.t = "number"

----------------------------------------------------------------------------
(* Claims about the portfolio sections (SpecSections) *)

SheetLinesOf(csvText) == splitCsvLines(csvText)

\* line i is a marker line: its first field, trimmed, starts with the marker
IsMarkerLine(line) ==
    LET first == Trim(splitRow(line)[1]) IN first # <<>> /\ Head(first) = MARK

\* the section key a marker line opens ("" for an unknown label)
KeyOfMarker(line) == matchedKey(stripSpaces(Trim(splitRow(line)[1])))

\* the row recorded for a line that is no marker
RowOfLine(line) ==
    LET fields == splitRow(line)
    IN  IF \A k \in 1..Len(fields) : Trim(fields[k]) = <<>> THEN NullRow
        ELSE KeptRow(fields)

\* the rows between the marker at line i and the next marker line
BlockAfter(lines, i) ==
    LET later == {j \in (i + 1)..Len(lines) : IsMarkerLine(lines[j])}
        stop == IF later = {} THEN Len(lines) + 1
                ELSE CHOOSE j \in later : \A k \in later : j <= k
    IN  [n \in 1..(stop - i - 1) |-> RowOfLine(lines[i + n])]

\* the marker lines that open section key
MarkersOf(lines, key) ==
    {i \in 1..Len(lines) : IsMarkerLine(lines[i]) /\ KeyOfMarker(lines[i]) = key}

\* the blocks of the markers in ms, one after the other
RECURSIVE BlocksInOrder(_, _)
BlocksInOrder(lines, ms) ==
    IF ms = {} THEN <<>>
    ELSE LET i == CHOOSE m \in ms : \A k \in ms : m <= k
         IN  BlockAfter(lines, i) \o BlocksInOrder(lines, ms \ {i})

SectionKeys == {SECTION_MAP[i].key : i \in 1..Len(SECTION_MAP)}

\* C25 as stated: a marker line closes the current section; after a known
\* label the following rows are collected under its key, after an unknown
\* one they are dropped; rows before the first marker are dropped; in a
\* recognized section a blank row is a null separator in its position and
\* every other row is kept in order: each section holds every row that
\* followed a marker of its key
C25_EveryRowKept ==
    pc = "done" =>
        LET lines == SheetLinesOf(arg.csvText) IN
        /\ DOMAIN ret.sections = {k \in SectionKeys : MarkersOf(lines, k) # {}}
        /\ \A k \in DOMAIN ret.sections :
               ret.sections[k] = BlocksInOrder(lines, MarkersOf(lines, k))

\* C25, amended: as stated, except that a section whose marker occurs more
\* than once holds the rows that followed the last of its markers only
C25_LastMarkerWins ==
    pc = "done" =>
        LET lines == SheetLinesOf(arg.csvText) IN
        /\ DOMAIN ret.sections = {k \in SectionKeys : MarkersOf(lines, k) # {}}
        /\ \A k \in DOMAIN ret.sections :
               LET ms == MarkersOf(lines, k)
                   last == CHOOSE m \in ms : \A j \in ms : j <= m
               IN  ret.sections[k] = BlockAfter(lines, last)

\* C25 witness: a section holding a row, a null separator and a row, and
\* rows after an unknown marker dropped
C25_Witness ==
    /\ pc = "done"
    /\ "risk" \in DOMAIN ret.sections
    /\ \/ /\ Len(ret.sections["risk"]) = 3
          /\ ret.sections["risk"][2] = NullRow
          /\ ~ret.sections["risk"][1].null /\ ~ret.sections["risk"][3].null
       \/ /\ ret.sections["risk"] = <<>>
          /\ Len(SheetLinesOf(arg.csvText)) = 4
          /\ SheetLinesOf(arg.csvText)[2] = <<MARK, "Z">>
          /\ SheetLinesOf(arg.csvText)[3] = <<"c">>

----------------------------------------------------------------------------
(* Claims about the refresh guard's progress (SpecRefresh) *)

\* C26: with every fetch settling in the end, every started cycle clears
\* the busy flag in the end, whether it completes or an exception reaches
\* the catch block, so the dashboard never stays in the loading state; and
\* a refresh requested while no cycle runs starts a new cycle
C26_BusyFlagCleared ==
    /\ isLoading ~> ~isLoading
    /\ [][(calls' # calls /\ ~isLoading) =>
             (isLoading' /\ pc' = "fetching" /\ inFlight' = 1)]_vars

\* C26 witness: a second cycle was started after the first one had ended,
\* it ended in the catch block, and the busy flag is clear again
C26_Witness ==
    /\ calls = 2
    /\ pc = "idle"
    /\ ~isLoading
    /\ lastUpdated = 1
    /\ "timestamp" \in threw

----------------------------------------------------------------------------
\* C27: no screener operation modifies its inputs: after any sequence of
\* initScreener calls, tab switches, header sorts, dropdown sorts, searches
\* and sector selections, every source table of screenData has the rows,
\* in the order and with the field values, it had when it was passed to
\* initScreener.
C27_SourcesUntouched ==
    pc = "done" => screenData = arg.data

\* C27 witness: a per-screen view sorted into another order than its
\* source's, and an ALL view in which a merge filled a field
C27_Witness ==
    /\ pc = "done"
    /\ currentScreen = ScreenKeys[1]
    /\ headerSort.col = "RS21"
    /\ Len(data) = 2
    /\ data # screenData[1].rows
    /\ screenData = arg.data
    /\ \E k \in 1..Len(renderScreenTableData(screenData, "ALL")) :
          \E e \in 1..Len(screenData) : \E i \in 1..Len(screenData[e].rows) :
             /\ stripFormula(screenData[e].rows[i], "Ticker")
                   = stripFormula(renderScreenTableData(screenData, "ALL")[k], "Ticker")
             /\ IsBlank(screenData[e].rows[i], "DAY%")
             /\ ~IsBlank(renderScreenTableData(screenData, "ALL")[k], "DAY%")

----------------------------------------------------------------------------
\* the number on the ALL tab and in the summary (lines 839, 872)
allCount(map) == Cardinality(DOMAIN map)

\* the indices of the records of rows whose ticker is id
RecordsOf(rows, id) ==
    {k \in 1..Len(rows) : stripFormula(rows[k], "Ticker") = [some |-> TRUE, id |-> id]}

----------------------------------------------------------------------------
\* C29: after any sequence of screener events a header sort is never
\* active while the sort dropdown holds a non-default option: a header
\* click resets the dropdown to 'default', a dropdown change and a tab
\* change clear the header sort, and initScreener resets the screen to
\* ALL, the header sort to none, the sector filter to none, the search
\* text to empty and the dropdown to 'default'.
C29_OneSortControlActive ==
    /\ [](pc = "done" => ~(headerSort.col # "" /\ sortSelect # "default"))
    /\ [][(headerSort' # headerSort /\ headerSort'.col # "")
            => sortSelect' = "default"]_vars
    /\ [][(sortSelect' # sortSelect /\ sortSelect' # "default")
            => headerSort' = NoSort]_vars
    /\ [][currentScreen' # currentScreen => headerSort' = NoSort]_vars
    /\ [][inits' # inits
            => /\ currentScreen' = "ALL"
               /\ headerSort' = NoSort
               /\ currentSector' = Null
               /\ searchInput' = <<>>
               /\ sortSelect' = "default"]_vars

\* C29 witness: after a second initScreener call, a header sort under a
\* sector filter and a search text, in a per-screen view
C29_Witness ==
    /\ pc = "done"
    /\ inits = 2
    /\ currentScreen # "ALL"
    /\ headerSort = [col |-> "RS21", dir |-> "asc"]
    /\ sortSelect = "default"
    /\ currentSector # Null
    /\ searchInput # <<>>

----------------------------------------------------------------------------
\* the column a named dropdown option sorts by, and whether it descends
SortColumn(option) == IF option \in {"rs21-desc", "rs21-asc"} THEN "RS21" ELSE "DAY%"
Descends(option) == option \in {"rs21-desc", "change-desc"}

\* the record has a numeric value in the column
Valued(r, col) == col \in DOMAIN r /\ r[col].t = "num"

\* the value the claim gives a record in the column
ValueOrSentinel(r, col) == IF Valued(r, col) THEN r[col].v ELSE -9999

\* the reconciled / source rows that pass the sector filter and the search
FilteredRows ==
    searchFilter(sectorFilter(renderScreenTableData(screenData, currentScreen),
                              currentSector), searchInput)

\* the rows shown are ordered by ValueOrSentinel in the option's direction
OrderedAsIfSentinel ==
    \A i, j \in 1..Len(data) :
       i < j => IF Descends(sortSelect)
                THEN ValueOrSentinel(data[i], SortColumn(sortSelect))
                        >= ValueOrSentinel(data[j], SortColumn(sortSelect))
                ELSE ValueOrSentinel(data[i], SortColumn(sortSelect))
                        <= ValueOrSentinel(data[j], SortColumn(sortSelect))

\* under an -asc option every record without a value comes before every
\* record with a value above -9999
MissingFirstAscending ==
    \A i, j \in 1..Len(data) :
       (/\ ~Valued(data[i], SortColumn(sortSelect))
        /\ Valued(data[j], SortColumn(sortSelect))
        /\ data[j][SortColumn(sortSelect)].v > -9999) => i < j

DropdownSortActive ==
    pc = "done" /\ headerSort.col = "" /\ sortSelect # "default"

DefaultKeepsOrder ==
    (pc = "done" /\ headerSort.col = "" /\ sortSelect = "default")
    => data = FilteredRows

\* C30 as stated: with no header sort active the named dropdown sorts order
\* a record whose RS21 / DAY% is missing or non-numeric as if its value were
\* -9999: after ALL valued records under the -desc options, before all
\* records with a value above -9999 under the -asc options; 'default'
\* leaves the reconciled / source order unchanged.
C30_MissingAfterAllValued ==
    /\ DefaultKeepsOrder
    /\ DropdownSortActive
       => /\ IsPermutationOf(data, FilteredRows)
          /\ OrderedAsIfSentinel
          /\ IF Descends(sortSelect)
             THEN \A i, j \in 1..Len(data) :
                     (/\ ~Valued(data[i], SortColumn(sortSelect))
                      /\ Valued(data[j], SortColumn(sortSelect))) => j < i
             ELSE MissingFirstAscending

\* C30, amended: as above, but under the -desc options the record is placed
\* after all records with a value above -9999 (a record whose value is
\* -9999 or lower does not come before it).
C30_MissingAsSentinel ==
    /\ DefaultKeepsOrder
    /\ DropdownSortActive
       => /\ IsPermutationOf(data, FilteredRows)
          /\ OrderedAsIfSentinel
          /\ IF Descends(sortSelect)
             THEN \A i, j \in 1..Len(data) :
                     (/\ ~Valued(data[i], SortColumn(sortSelect))
                      /\ Valued(data[j], SortColumn(sortSelect))
                      /\ data[j][SortColumn(sortSelect)].v > -9999) => j < i
             ELSE MissingFirstAscending

\* C30 witness: a per-screen view under rs21-desc in which the record with
\* a value was moved in front of the record without one
C30_Witness ==
    /\ pc = "done" /\ headerSort.col = "" /\ sortSelect = "rs21-desc"
    /\ currentScreen = ScreenKeys[1]
    /\ Len(data) = 2
    /\ Valued(data[1], "RS21") /\ data[1]["RS21"].v > -9999
    /\ ~Valued(data[2], "RS21")
    /\ data # screenData[1].rows

=============================================================================
